---- MODULE Spec2Model ----
(***************************************************************************)
(* Retrieval / ranking / provider-cascade core of album-ai-backend.         *)
(*                                                                         *)
(* Strings are sequences of one-character strings, so that normalize,      *)
(* String.includes / startsWith / endsWith / split and the regular          *)
(* expressions of the source are computed character by character.          *)
(***************************************************************************)
EXTENDS Integers, Sequences, FiniteSets, TLC

VARIABLES
    scTokens,   \* scorer run: the query tokens handed to the scorer
    scText,     \* scorer run: the raw title of the unit being scored
    scBody,     \* scorer run: the raw body of the unit being scored
    scPc,       \* scorer run: "ready" | "scoreText" | "scoreDoc" | "scoreChunk"
    scResult,   \* scorer run: the integer the scorer returned
    rtVariant,  \* retrieval run: "node" (Node handler) | "node0" (its predecessor) | "edge" (edge function)
    rtQuestion, \* retrieval run: the trimmed question of the request
    rtHint,     \* retrieval run: body.topicHint (read by the edge function only)
    rtHeld,     \* retrieval run: the docs the store holds
    rtRead,     \* retrieval run: how the read of the store ends (see ReadOutcomes)
    rtStore,    \* retrieval run: the docs the store read returned
    rtPc,       \* retrieval run: "off" | "start" | "classified" | "retrieved" | "threw"
    rtTopic,    \* retrieval run: the topic retrieval is called with
    rtUnits,    \* retrieval run: what topK returned
    rtConf,     \* retrieval run: confidence of buildContext as the exact fraction <<num, den>>
    rqVariant,  \* request: "node" (Node handler) | "edge" (edge function) | "chat" (chat handler) | "ai" (context proxy)
    rqKeys,     \* request: the providers whose API key is set in the environment
    rqOrder,    \* request: AI_PROVIDER_ORDER after split/trim/lowercase (<<>> = unset)
    rqQuestion, \* request: body.question as received
    rqHint,     \* request: body.topicHint as received
    rqStore,    \* request: the docs the store read returns
    rqContext,  \* request: body.context (read by the context proxy only)
    rqPc,       \* request: "off" | "recv" | "loop" | "calling" | "done"
    rqTopic,    \* request: the topic the handler routed to
    rqUnits,    \* request: the ranked units of buildContext
    rqIds,      \* request: the provenance ids of buildContext
    rqConf,     \* request: confidence as the exact fraction <<num, den>>
    rqProviders,\* request: the provider list the cascade loops over
    rqAttempts, \* request: the provider calls made so far, [name, outcome]
    rqTimers,   \* request: attempts whose abort timer is still armed
    rqAnswer,   \* request: the handler's local `answer`
    rqProvider, \* request: the handler's local `provider`
    rqResponse, \* request: the HTTP response sent (NoResponse before)
    poVariant,  \* post-processing run: "chat" (polishAnswer) | "node" (the handler's trim and replace)
    poRaw,      \* post-processing run: the raw answer
    poOnce,     \* post-processing run: the raw answer post-processed
    poTwice,    \* post-processing run: that output post-processed again
    poPc,       \* post-processing run: "off" | "raw" | "once" | "twice"
    igStore,    \* ingestion: the docs of docs/docs.json in the blob store
    igRuns,     \* ingestion: each request, [docId, n, pc, loaded]
    skQuestion, \* skill match: the question handed to matchSkill
    skIndex,    \* skill match: the position of the loop in its iteration order
    skResult,   \* skill match: the registry index of the skill returned, 0 for null
    skPc        \* skill match: "off" | "loop" | "done"

scoreVars == <<scTokens, scText, scBody, scPc, scResult>>
retrVars == <<rtVariant, rtQuestion, rtHint, rtHeld, rtRead, rtStore, rtPc, rtTopic, rtUnits,
             rtConf>>
reqVars == <<rqVariant, rqKeys, rqOrder, rqQuestion, rqHint, rqStore, rqContext, rqPc,
          rqTopic,
             rqUnits, rqIds, rqConf, rqProviders, rqAttempts, rqTimers, rqAnswer,
             rqProvider, rqResponse>>

polishVars == <<poVariant, poRaw, poOnce, poTwice, poPc>>

ingestVars == <<igStore, igRuns>>

skillVars == <<skQuestion, skIndex, skResult, skPc>>

vars == <<scTokens, scText, scBody, scPc, scResult,
          rtVariant, rtQuestion, rtHint, rtHeld, rtRead, rtStore, rtPc, rtTopic, rtUnits,
          rtConf,
          rqVariant, rqKeys, rqOrder, rqQuestion, rqHint, rqStore, rqContext, rqPc,
          rqTopic,
          rqUnits, rqIds, rqConf, rqProviders, rqAttempts, rqTimers, rqAnswer,
          rqProvider, rqResponse,
          poVariant, poRaw, poOnce, poTwice, poPc,
          igStore, igRuns,
          skQuestion, skIndex, skResult, skPc>>

NoResponse ==
    [status |-> 0, kind |-> "none", provider |-> "", answer |-> <<>>, sources |-> <<>>,
     error |-> <<>>]

\* no request is being handled
ReqIdle ==
    /\ rqVariant = "node" /\ rqKeys = {} /\ rqOrder = <<>>
    /\ rqQuestion = <<>> /\ rqHint = "" /\ rqStore = <<>>
    /\ rqContext = <<>> /\ rqPc = "off" /\ rqTopic = "" /\ rqUnits = <<>> /\ rqIds = <<>>
    /\ rqConf = <<0, 1>> /\ rqProviders = <<>> /\ rqAttempts = <<>>
    /\ rqTimers = {} /\ rqAnswer = <<>> /\ rqProvider = "" /\ rqResponse = NoResponse

\* no skill match in progress
SkillIdle == skQuestion = <<>> /\ skIndex = 0 /\ skResult = 0 /\ skPc = "off"

\* no ingestion request
IngestIdle == igStore = <<>> /\ igRuns = <<>>

\* no post-processing run in progress
PolishIdle ==
    /\ poVariant = "node" /\ poRaw = <<>> /\ poOnce = <<>> /\ poTwice = <<>> /\ poPc = "off"

(***************************************************************************)
(* Characters and strings                                                  *)
(***************************************************************************)
SP == " "
NL == "\n"

\* \s of the regular expressions
IsSpace(c) == c \in {" ", "\n", "\t", "\r"}

LowerAlpha == {"a","b","c","d","e","f","g","h","i","j","k","l","m",
               "n","o","p","q","r","s","t","u","v","w","x","y","z"}
Digits == {"0","1","2","3","4","5","6","7","8","9"}

\* String.prototype.toLowerCase, on the characters the model uses
toLowerCase(c) ==
    CASE c = "A" -> "a" [] c = "B" -> "b" [] c = "C" -> "c" [] c = "D" -> "d"
      [] c = "E" -> "e" [] c = "F" -> "f" [] c = "G" -> "g" [] c = "H" -> "h"
      [] c = "I" -> "i" [] c = "J" -> "j" [] c = "K" -> "k" [] c = "L" -> "l"
      [] c = "M" -> "m" [] c = "N" -> "n" [] c = "O" -> "o" [] c = "P" -> "p"
      [] c = "Q" -> "q" [] c = "R" -> "r" [] c = "S" -> "s" [] c = "T" -> "t"
      [] c = "U" -> "u" [] c = "V" -> "v" [] c = "W" -> "w" [] c = "X" -> "x"
      [] c = "Y" -> "y" [] c = "Z" -> "z" [] OTHER -> c

\* the character class [a-z0-9\s\-_/.:] that normalize keeps
Kept(c) == c \in LowerAlpha \cup Digits \cup {"-", "_", "/", ".", ":"} \/ IsSpace(c)

includes(t, s) ==
    \E i \in 0..(Len(t) - Len(s)) : SubSeq(t, i + 1, i + Len(s)) = s

startsWith(t, s) == Len(s) <= Len(t) /\ SubSeq(t, 1, Len(s)) = s

endsWith(t, s) == Len(s) <= Len(t) /\ SubSeq(t, Len(t) - Len(s) + 1, Len(t)) = s

\* [1..n] as a sequence
Indices(n) == [i \in 1..n |-> i]

\* .replace(/\s+/g, " "): every run of whitespace becomes one space
collapse(s) ==
    LET first == SelectSeq(Indices(Len(s)),
                     LAMBDA i : ~(IsSpace(s[i]) /\ i > 1 /\ IsSpace(s[i - 1])))
    IN  [j \in 1..Len(first) |-> IF IsSpace(s[first[j]]) THEN SP ELSE s[first[j]]]

\* String.prototype.trim
trim(s) ==
    IF \A i \in 1..Len(s) : IsSpace(s[i]) THEN <<>>
    ELSE SubSeq(s, CHOOSE i \in 1..Len(s) :
                       ~IsSpace(s[i]) /\ \A j \in 1..(i - 1) : IsSpace(s[j]),
                   CHOOSE i \in 1..Len(s) :
                       ~IsSpace(s[i]) /\ \A j \in (i + 1)..Len(s) : IsSpace(s[j]))

\* normalize: lower-case, every character outside [a-z0-9\s\-_/.:] becomes a
\* space (the curly quotes replaced first become plain quotes, which are
\* outside the class too), whitespace runs collapse, the ends are trimmed.
normalize(s) ==
    LET low == [i \in 1..Len(s) |-> toLowerCase(s[i])]
        rep == [i \in 1..Len(s) |-> IF Kept(low[i]) THEN low[i] ELSE SP]
    IN  trim(collapse(rep))

\* String.prototype.split(sep), sep one character
splitOn(s, sep) ==
    LET cuts == <<0>> \o SelectSeq(Indices(Len(s)), LAMBDA i : s[i] = sep) \o <<Len(s) + 1>>
    IN  [j \in 1..(Len(cuts) - 1) |-> SubSeq(s, cuts[j] + 1, cuts[j + 1] - 1)]

split(s) == splitOn(s, SP)

\* TOK: normalize(s).split(" ").filter(Boolean)
TOK(s) == SelectSeq(split(normalize(s)), LAMBDA w : w # <<>>)

(***************************************************************************)
(* Lexical scorers                                                         *)
(***************************************************************************)
\* one query token against the normalized text t: 3 / 1 / 0
tokenScore(t, tok) ==
    IF tok = <<>> THEN 0
    ELSE IF \/ includes(t, <<SP>> \o tok \o <<SP>>)
            \/ startsWith(t, tok \o <<SP>>)
            \/ endsWith(t, <<SP>> \o tok)
         THEN 3
         ELSE IF includes(t, tok) THEN 1 ELSE 0

RECURSIVE sumTokens(_, _, _)
sumTokens(t, qTokens, i) ==
    IF i > Len(qTokens) THEN 0
    ELSE tokenScore(t, qTokens[i]) + sumTokens(t, qTokens, i + 1)

\* scoreText(qTokens, text) of the Node handler, score(text, tokens) of its
\* predecessor and scoreChunk of the edge function: the same loop
scoreText(qTokens, text) == sumTokens(normalize(text), qTokens, 1)

W_aavss == <<"a","a","v","s","s">>
W_avs == <<"a","u","t","o","n","o","m","o","u","s"," ","v","e","h","i","c","l","e"," ",
           "s","a","f","e","t","y">>
W_dataset == <<"d","a","t","a","s","e","t">>
W_srilanka == <<"s","r","i"," ","l","a","n","k","a">>

\* scoreDoc on the normalized text t of a doc: the loop, plus one point for
\* each project the text mentions
scoreDocNormalized(qTokens, t) ==
    sumTokens(t, qTokens, 1)
      + (IF includes(t, W_aavss) \/ includes(t, W_avs) THEN 1 ELSE 0)
      + (IF includes(t, W_dataset) \/ includes(t, W_srilanka) THEN 1 ELSE 0)

\* scoreDoc(qTokens, doc) of the edge function, over title + " " + text
scoreDoc(qTokens, title, text) ==
    scoreDocNormalized(qTokens, normalize(title \o <<SP>> \o text))

\* scoreChunk(qTokens, chunk) of the edge function's retrieval over KB docs
\* and stored chunks: the loop alone, over title + " " + text
scoreChunk(qTokens, title, text) ==
    sumTokens(normalize(title \o <<SP>> \o text), qTokens, 1)

(***************************************************************************)
(* Scorer runs: the inputs are drawn in ScoreInit, one step applies a      *)
(* scorer.                                                                 *)
(***************************************************************************)
MaxTextLen == 3
MaxTokens == 2

ScoreAlphabet == {"a", "b", " "}

RECURSIVE StringsUpTo(_, _)
StringsUpTo(alphabet, n) ==
    IF n = 0 THEN {<<>>}
    ELSE LET shorter == StringsUpTo(alphabet, n - 1)
         IN  shorter \cup {Append(s, c) : s \in shorter, c \in alphabet}

T_lane == <<"l","a","n","e">>
T_laneMarkings == <<"t","h","e"," ","l","a","n","e"," ","m","a","r","k","i","n","g","s">>
T_landmark == <<"a"," ","l","a","n","d","m","a","r","k"," ","n","e","a","r","b","y">>
T_aavssLane == <<"A","A","V","S","S"," ","L","a","n","e","!">>

ScoreTexts ==
    StringsUpTo(ScoreAlphabet, MaxTextLen)
      \cup {T_lane, T_laneMarkings, T_landmark, T_aavssLane}

ScoreTokenPool == {<<>>, <<"a">>, <<"b">>, <<"a","b">>, T_lane}

ScoreTokenLists ==
    UNION {[1..n -> ScoreTokenPool] : n \in 1..MaxTokens}

\* no retrieval run in progress
RetrIdle ==
    /\ rtVariant = "node" /\ rtQuestion = <<>> /\ rtHint = "" /\ rtStore = <<>>
    /\ rtHeld = <<>> /\ rtRead = "ok"
    /\ rtPc = "off" /\ rtTopic = "" /\ rtUnits = <<>> /\ rtConf = <<0, 1>>

ScoreInit ==
    /\ RetrIdle
    /\ ReqIdle
    /\ PolishIdle
    /\ IngestIdle
    /\ SkillIdle
    /\ scTokens \in ScoreTokenLists
    /\ scText \in ScoreTexts
    /\ scBody \in {<<>>, <<"a">>}
    /\ scPc = "ready"
    /\ scResult = 0

ScoreTextStep ==
    /\ scPc = "ready"
    /\ scBody = <<>>
    /\ scResult' = scoreText(scTokens, scText)
    /\ scPc' = "scoreText"
    /\ UNCHANGED <<scTokens, scText, scBody>>
    /\ UNCHANGED retrVars
    /\ UNCHANGED reqVars
    /\ UNCHANGED polishVars
    /\ UNCHANGED ingestVars
    /\ UNCHANGED skillVars

ScoreDocStep ==
    /\ scPc = "ready"
    /\ scResult' = scoreDoc(scTokens, scText, scBody)
    /\ scPc' = "scoreDoc"
    /\ UNCHANGED <<scTokens, scText, scBody>>
    /\ UNCHANGED retrVars
    /\ UNCHANGED reqVars
    /\ UNCHANGED polishVars
    /\ UNCHANGED ingestVars
    /\ UNCHANGED skillVars

ScoreChunkStep ==
    /\ scPc = "ready"
    /\ scResult' = scoreChunk(scTokens, scText, scBody)
    /\ scPc' = "scoreChunk"
    /\ UNCHANGED <<scTokens, scText, scBody>>
    /\ UNCHANGED retrVars
    /\ UNCHANGED reqVars
    /\ UNCHANGED polishVars
    /\ UNCHANGED ingestVars
    /\ UNCHANGED skillVars

ScoreNext == ScoreTextStep \/ ScoreDocStep \/ ScoreChunkStep

SpecScore == ScoreInit /\ [][ScoreNext]_vars

\* the text a scorer run scanned
ScannedText ==
    IF scPc \in {"scoreDoc", "scoreChunk"} THEN normalize(scText \o <<SP>> \o scBody)
    ELSE normalize(scText)

\* tok occurs in t as a whole word: bounded by a space or by the start of
\* the string on the left, and by a space or by its end on the right
WholeWordIn(t, tok) ==
    \E i \in 1..(Len(t) - Len(tok) + 1) :
        /\ SubSeq(t, i, i + Len(tok) - 1) = tok
        /\ i = 1 \/ t[i - 1] = SP
        /\ i + Len(tok) - 1 = Len(t) \/ t[i + Len(tok)] = SP

RECURSIVE WholeWordSum(_, _, _)
WholeWordSum(t, qTokens, i) ==
    IF i > Len(qTokens) THEN 0
    ELSE (IF qTokens[i] = <<>> THEN 0
          ELSE IF WholeWordIn(t, qTokens[i]) THEN 3
          ELSE IF includes(t, qTokens[i]) THEN 1 ELSE 0)
         + WholeWordSum(t, qTokens, i + 1)

\* C9: the score is exactly the sum over the non-empty query tokens of 3 for
\* a whole-word occurrence (bounded by spaces or by the start or end of the
\* string), 1 for a substring-only occurrence and 0 otherwise, and nothing
\* else contributes.
C9_ScoreIsWholeWordSum ==
    scPc # "ready" => scResult = WholeWordSum(ScannedText, scTokens, 1)

(***************************************************************************)
(* Topic classifier                                                        *)
(***************************************************************************)
KW_node_aavss == {
    <<"a","a","v","s","s">>,
    <<"f","u","s","i","o","n">>,
    <<"r","a","d","a","r">>,
    <<"l","i","d","a","r">>,
    <<"j","e","t","s","o","n">>,
    <<"a","d","a","s">>,
    <<"s","a","f","e","t","y">>,
    <<"t","e","n","s","o","r","r","t">>,
    <<"h","u","d">>,
    <<"d","r","i","v","e","r"," ","m","o","n","i","t","o","r","i","n","g">>
}

KW_node_sldataset == {
    <<"d","a","t","a","s","e","t">>,
    <<"d","a","t","a"," ","s","e","t">>,
    <<"s","r","i"," ","l","a","n","k","a">>,
    <<"a","n","n","o","t","a","t","i","o","n">>,
    <<"l","a","b","e","l">>,
    <<"s","p","l","i","t">>,
    <<"d","o","w","n","l","o","a","d">>,
    <<"l","i","c","e","n","s","e">>,
    <<"c","l","a","s","s","e","s">>,
    <<"n","i","g","h","t"," ","d","r","i","v","i","n","g">>
}

KW_node_about == {
    <<"o","w","n","e","r">>,
    <<"m","a","n","u","f","a","c","t","u","r">>,
    <<"c","o","n","c","e","p","t">>,
    <<"w","h","o"," ","i","s">>,
    <<"w","h","o"," ","a","r","e">>,
    <<"a","b","o","u","t">>,
    <<"s","a","c","h","i","n","t","h","a">>
}

KW_edge_aavss == {
    <<"a","a","v","s","s">>,
    <<"f","u","s","i","o","n">>,
    <<"r","a","d","a","r">>,
    <<"l","i","d","a","r">>,
    <<"l","a","n","e">>,
    <<"t","r","a","c","k","i","n","g">>,
    <<"j","e","t","s","o","n">>,
    <<"s","a","f","e","t","y">>
}

KW_edge_sldataset == {
    <<"d","a","t","a","s","e","t">>,
    <<"d","a","t","a"," ","s","e","t">>,
    <<"s","r","i"," ","l","a","n","k","a">>,
    <<"a","n","n","o","t","a","t","i","o","n">>,
    <<"l","a","b","e","l">>,
    <<"s","p","l","i","t">>,
    <<"d","o","w","n","l","o","a","d">>,
    <<"l","i","c","e","n","s","e">>
}

KW_node0_aavss == {
    <<"a","a","v","s","s">>,
    <<"f","u","s","i","o","n">>,
    <<"r","a","d","a","r">>,
    <<"l","i","d","a","r">>,
    <<"l","a","n","e">>,
    <<"t","r","a","c","k","i","n","g">>,
    <<"j","e","t","s","o","n">>,
    <<"s","a","f","e","t","y">>,
    <<"a","d","a","s">>,
    <<"t","e","n","s","o","r","r","t">>
}

KW_node0_sldataset == {
    <<"d","a","t","a","s","e","t">>,
    <<"d","a","t","a"," ","s","e","t">>,
    <<"s","r","i"," ","l","a","n","k","a">>,
    <<"a","n","n","o","t","a","t","i","o","n">>,
    <<"l","a","b","e","l">>,
    <<"s","p","l","i","t">>,
    <<"d","o","w","n","l","o","a","d">>,
    <<"l","i","c","e","n","s","e">>,
    <<"c","l","a","s","s","e","s">>
}

\* the keyword groups in the order the if-statements test them
TopicGroups(v) ==
    IF v = "node"
    THEN << [domain |-> "aavss",     keywords |-> KW_node_aavss],
            [domain |-> "sldataset", keywords |-> KW_node_sldataset],
            [domain |-> "about",     keywords |-> KW_node_about] >>
    ELSE IF v = "node0"
    THEN << [domain |-> "aavss",     keywords |-> KW_node0_aavss],
            [domain |-> "sldataset", keywords |-> KW_node0_sldataset] >>
    ELSE << [domain |-> "aavss",     keywords |-> KW_edge_aavss],
            [domain |-> "sldataset", keywords |-> KW_edge_sldataset] >>

\* /(^|\s)(kw)(\s|$)/.test(n)
regexTest(n, kw) ==
    \E i \in 1..(Len(n) - Len(kw) + 1) :
        /\ SubSeq(n, i, i + Len(kw) - 1) = kw
        /\ i = 1 \/ IsSpace(n[i - 1])
        /\ i + Len(kw) - 1 = Len(n) \/ IsSpace(n[i + Len(kw)])

groupTest(n, keywords) == \E kw \in keywords : regexTest(n, kw)

RECURSIVE firstGroup(_, _, _)
firstGroup(n, groups, i) ==
    IF i > Len(groups) THEN "all"
    ELSE IF groupTest(n, groups[i].keywords) THEN groups[i].domain
         ELSE firstGroup(n, groups, i + 1)

RECURSIVE lastGroup(_, _, _)
lastGroup(n, groups, i) ==
    IF i < 1 THEN "all"
    ELSE IF groupTest(n, groups[i].keywords) THEN groups[i].domain
         ELSE lastGroup(n, groups, i - 1)

\* the classifier with its if-statements in the opposite order
detectTopicLastMatch(v, question) ==
    lastGroup(normalize(question), TopicGroups(v), Len(TopicGroups(v)))

detectTopic(v, question) == firstGroup(normalize(question), TopicGroups(v), 1)

(***************************************************************************)
(* Knowledge base and PDF chunk store                                      *)
(***************************************************************************)
\* KB.docs of the Node handler; a character outside ASCII is written ~
KB_node == <<
  [ id    |-> <<"a","a","v","s","s","-","o","v","e","r","v","i","e","w">>,
    topic |-> "aavss",
    title |-> <<"A","A","V","S","S"," ","~"," ","O","v","e","r","v","i","e","w">>,
    text  |-> <<"A","A","V","S","S"," ","(","A","d","v","a","n","c","e","d"," ","A","u","t","o","n","o","m",
                "o","u","s"," ","V","e","h","i","c","l","e"," ","S","a","f","e","t","y"," ","S",
                "y","s","t","e","m",")"," ","i","s"," ","a"," ","r","e","a","l","-","t","i","m",
                "e"," ","s","a","f","e","t","y"," ","a","n","d"," ","p","e","r","c","e","p","t",
                "i","o","n"," ","s","t","a","c","k","."," ","C","o","r","e",":"," ","m","u","l",
                "t","i","-","s","e","n","s","o","r"," ","f","u","s","i","o","n"," ","(","L","i",
                "D","A","R"," ","+"," ","m","m","W","a","v","e"," ","r","a","d","a","r"," ","+",
                " ","R","G","B"," ","c","a","m","e","r","a",")","."," ","E","m","b","e","d","d",
                "e","d"," ","t","a","r","g","e","t",":"," ","N","V","I","D","I","A"," ","J","e",
                "t","s","o","n"," ","(","N","a","n","o","-","c","l","a","s","s",")"," ","w","i",
                "t","h"," ","T","e","n","s","o","r","R","T"," ","o","p","t","i","m","i","z","a",
                "t","i","o","n","s","."," ","T","y","p","i","c","a","l"," ","e","n","d","-","t",
                "o","-","e","n","d"," ","l","a","t","e","n","c","y"," ","s","u","b","-","1","0",
                "0"," ","m","s"," ","a","t"," ","1","0","~","2","0"," ","F","P","S"," ","d","e",
                "p","e","n","d","i","n","g"," ","o","n"," ","m","o","d","e","l"," ","s","i","z",
                "e","s",".">> ],
  [ id    |-> <<"a","a","v","s","s","-","s","e","n","s","o","r","s">>,
    topic |-> "aavss",
    title |-> <<"A","A","V","S","S"," ","~"," ","S","e","n","s","o","r","s"," ","&"," ","R","o","l","e","s">>,
    text  |-> <<"R","o","l","e","s",":","\n","~"," ","L","i","D","A","R"," ","~"," ","3","D"," ","s","t","r",
                "u","c","t","u","r","e",","," ","o","b","s","t","a","c","l","e"," ","s","h","a",
                "p","e",","," ","d","r","i","v","a","b","l","e"," ","f","r","e","e","-","s","p",
                "a","c","e",".","\n","~"," ","m","m","W","a","v","e"," ","r","a","d","a","r",
                " ","~"," ","r","a","n","g","e"," ","+"," ","r","a","d","i","a","l"," ","v","e",
                "l","o","c","i","t","y",","," ","r","o","b","u","s","t"," ","i","n"," ","r","a",
                "i","n","/","f","o","g",","," ","c","o","m","p","l","e","m","e","n","t","s"," ",
                "v","i","s","i","o","n",".","\n","~"," ","R","G","B"," ","c","a","m","e","r",
                "a"," ","~"," ","t","r","a","f","f","i","c"," ","l","i","g","h","t","s","/","s",
                "i","g","n","s",","," ","l","a","n","e"," ","m","a","r","k","i","n","g","s",",",
                " ","a","n","d"," ","V","R","U"," ","d","e","t","e","c","t","i","o","n",".",
                "\n","E","x","a","c","t"," ","S","K","U","s"," ","v","a","r","y"," ","b","y",
                " ","b","u","i","l","d",";"," ","a","d","d"," ","y","o","u","r"," ","s","e","n",
                "s","o","r"," ","m","o","d","e","l","s"," ","t","o"," ","d","o","c","s",".","j",
                "s","o","n"," ","o","r"," ","P","D","F"," ","f","o","r"," ","p","r","e","c","i",
                "s","e"," ","a","n","s","w","e","r","s",".">> ],
  [ id    |-> <<"a","a","v","s","s","-","p","i","p","e","l","i","n","e">>,
    topic |-> "aavss",
    title |-> <<"A","A","V","S","S"," ","~"," ","F","u","s","i","o","n"," ","P","i","p","e","l","i","n","e",
                " ","(","h","i","g","h"," ","l","e","v","e","l",")">>,
    text  |-> <<"C","a","l","i","b","r","a","t","i","o","n"," ","~"," ","t","i","m","e","-","s","y","n","c",
                " ","~"," ","p","e","r","-","s","e","n","s","o","r"," ","d","e","t","e","c","t",
                "i","o","n","/","f","e","a","t","u","r","e"," ","e","x","t","r","a","c","t","i",
                "o","n"," ","~"," ","o","b","j","e","c","t"," ","a","s","s","o","c","i","a","t",
                "i","o","n"," ","~"," ","t","r","a","c","k","i","n","g"," ","~"," ","r","i","s",
                "k"," ","s","c","o","r","i","n","g","/","a","l","e","r","t","i","n","g","."," ",
                "S","a","f","e","t","y"," ","a","n","a","l","y","t","i","c","s"," ","d","e","l",
                "i","v","e","r","e","d"," ","i","n","-","c","a","b","i","n"," ","a","s"," ","H",
                "U","D","/","a","l","e","r","t","s",".">> ],
  [ id    |-> <<"s","l","d","-","o","v","e","r","v","i","e","w">>,
    topic |-> "sldataset",
    title |-> <<"S","r","i"," ","L","a","n","k","a"," ","A","u","t","o","n","o","m","o","u","s"," ","D","r",
                "i","v","i","n","g"," ","D","a","t","a","s","e","t"," ","~"," ","O","v","e","r",
                "v","i","e","w">>,
    text  |-> <<"O","p","e","n"," ","d","r","i","v","i","n","g"," ","d","a","t","a","s","e","t"," ","a","c",
                "r","o","s","s"," ","S","r","i"," ","L","a","n","k","a","n"," ","r","o","a","d",
                " ","s","c","e","n","a","r","i","o","s"," ","(","u","r","b","a","n","/","r","u",
                "r","a","l",";"," ","r","a","i","n",","," ","f","o","g",","," ","n","i","g","h",
                "t",")","."," ","I","n","c","l","u","d","e","s"," ","a","n","n","o","t","a","t",
                "i","o","n","s"," ","f","o","r"," ","l","a","n","e","s",","," ","s","i","g","n",
                "s",","," ","a","n","d"," ","h","a","z","a","r","d","s","."," ","E","x","a","m",
                "p","l","e"," ","m","e","d","i","a"," ","i","n","c","l","u","d","e","d",";"," ",
                "a","d","d"," ","P","D","F","s"," ","f","o","r"," ","s","p","e","c","s",".">> ],
  [ id    |-> <<"a","b","o","u","t","-","o","w","n","e","r">>,
    topic |-> "about",
    title |-> <<"O","w","n","e","r","s","h","i","p"," ","&"," ","C","o","n","c","e","p","t">>,
    text  |-> <<"O","w","n","e","r","/","C","o","n","c","e","p","t","/","M","a","n","u","f","a","c","t","u",
                "r","e","r",":"," ","S","a","c","h","i","n","t","h","a"," ","G","a","u","r","a",
                "w","a","."," ","R","o","l","e","s",":"," ","O","w","n","e","r",","," ","C","o",
                "n","c","e","p","t"," ","d","e","s","i","g","n","e","r",","," ","M","a","n","u",
                "f","a","c","t","u","r","e","r","."," ","P","r","i","m","a","r","y"," ","p","r",
                "o","j","e","c","t","s",":"," ","A","A","V","S","S"," ","(","A","d","v","a","n",
                "c","e","d"," ","A","u","t","o","n","o","m","o","u","s"," ","V","e","h","i","c",
                "l","e"," ","S","a","f","e","t","y"," ","S","y","s","t","e","m",")",","," ","S",
                "r","i"," ","L","a","n","k","a"," ","A","u","t","o","n","o","m","o","u","s"," ",
                "D","r","i","v","i","n","g"," ","D","a","t","a","s","e","t",".">> ],
  [ id    |-> <<"a","b","o","u","t","-","w","h","o","i","s">>,
    topic |-> "about",
    title |-> <<"W","h","o"," ","i","s"," ","S","a","c","h","i","n","t","h","a"," ","G","a","u","r","a","w",
                "a","?">>,
    text  |-> <<"S","a","c","h","i","n","t","h","a"," ","G","a","u","r","a","w","a"," ","~"," ","E","n","g",
                "i","n","e","e","r"," ","a","n","d"," ","c","r","e","a","t","o","r"," ","f","o",
                "c","u","s","e","d"," ","o","n"," ","a","u","t","o","n","o","m","o","u","s"," ",
                "d","r","i","v","i","n","g",","," ","e","m","b","e","d","d","e","d"," ","A","I",
                ","," ","a","n","d"," ","s","a","f","e","t","y"," ","s","y","s","t","e","m","s",
                "."," ","L","e","a","d","s"," ","d","e","v","e","l","o","p","m","e","n","t"," ",
                "a","n","d"," ","p","r","o","d","u","c","t"," ","d","i","r","e","c","t","i","o",
                "n"," ","f","o","r"," ","A","A","V","S","S"," ","a","n","d"," ","t","h","e"," ",
                "S","r","i"," ","L","a","n","k","a"," ","d","a","t","a","s","e","t"," ","e","f",
                "f","o","r","t","s",".">> ]
>>

\* KB.docs of the edge function; a character outside ASCII is written ~
KB_edge == <<
  [ id    |-> <<"a","a","v","s","s","-","o","v","e","r","v","i","e","w">>,
    topic |-> "aavss",
    title |-> <<"A","A","V","S","S"," ","~"," ","O","v","e","r","v","i","e","w">>,
    text  |-> <<"A","A","V","S","S"," ","(","A","d","v","a","n","c","e","d"," ","A","u","t","o","n","o","m",
                "o","u","s"," ","V","e","h","i","c","l","e"," ","S","a","f","e","t","y"," ","S",
                "y","s","t","e","m",")"," ","i","s"," ","a"," ","r","e","a","l","-","t","i","m",
                "e"," ","s","a","f","e","t","y"," ","a","n","d"," ","p","e","r","c","e","p","t",
                "i","o","n"," ","s","t","a","c","k","."," ","F","o","c","u","s",":"," ","o","n",
                "-","r","o","a","d"," ","h","a","z","a","r","d"," ","a","w","a","r","e","n","e",
                "s","s",","," ","d","r","i","v","e","r"," ","a","l","e","r","t","s",","," ","a",
                "n","d"," ","r","e","s","e","a","r","c","h"," ","p","r","o","t","o","t","y","p",
                "i","n","g","."," ","C","o","r","e",":"," ","m","u","l","t","i","-","s","e","n",
                "s","o","r"," ","f","u","s","i","o","n"," ","(","L","i","D","A","R"," ","+"," ",
                "m","m","W","a","v","e"," ","r","a","d","a","r"," ","+"," ","R","G","B"," ","c",
                "a","m","e","r","a","s",")","."," ","D","e","p","l","o","y","m","e","n","t"," ",
                "t","a","r","g","e","t",":"," ","e","m","b","e","d","d","e","d"," ","N","V","I",
                "D","I","A"," ","J","e","t","s","o","n"," ","p","l","a","t","f","o","r","m"," ",
                "(","N","a","n","o","-","c","l","a","s","s",")"," ","w","i","t","h"," ","T","e",
                "n","s","o","r","R","T"," ","o","p","t","i","m","i","z","a","t","i","o","n","s",
                "."," ","G","o","a","l"," ","l","a","t","e","n","c","y",":"," ","s","u","b","-",
                "1","0","0"," ","m","s"," ","e","n","d","-","t","o","-","e","n","d"," ","a","t",
                " ","1","0","~","2","0"," ","F","P","S"," ","d","e","p","e","n","d","i","n","g",
                " ","o","n"," ","s","e","n","s","o","r"," ","l","o","a","d"," ","a","n","d"," ",
                "m","o","d","e","l"," ","s","i","z","e","s",".">> ],
  [ id    |-> <<"a","a","v","s","s","-","s","e","n","s","o","r","s">>,
    topic |-> "aavss",
    title |-> <<"A","A","V","S","S"," ","~"," ","S","e","n","s","o","r","s"," ","&"," ","R","o","l","e","s">>,
    text  |-> <<"S","e","n","s","o","r","s"," ","a","n","d"," ","r","o","l","e","s",":","\n","~"," ","L","i",
                "D","A","R",":"," ","3","D"," ","s","t","r","u","c","t","u","r","e",","," ","r",
                "a","n","g","e",","," ","o","b","s","t","a","c","l","e"," ","s","h","a","p","e",
                ","," ","a","n","d"," ","e","g","o","-","f","r","e","e","-","s","p","a","c","e",
                " ","e","s","t","i","m","a","t","i","o","n",".","\n","~"," ","m","m","W","a",
                "v","e"," ","r","a","d","a","r",":"," ","r","a","n","g","e"," ","+"," ","r","a",
                "d","i","a","l"," ","v","e","l","o","c","i","t","y",";"," ","r","o","b","u","s",
                "t"," ","i","n"," ","r","a","i","n","/","f","o","g",";"," ","c","o","m","p","l",
                "e","m","e","n","t","s"," ","v","i","s","i","o","n"," ","f","o","r"," ","t","r",
                "a","c","k","i","n","g",".","\n","~"," ","R","G","B"," ","c","a","m","e","r",
                "a","(","s",")",":"," ","a","p","p","e","a","r","a","n","c","e"," ","c","u","e",
                "s",","," ","t","r","a","f","f","i","c"," ","l","i","g","h","t","s","/","s","i",
                "g","n","s",","," ","l","a","n","e"," ","m","a","r","k","i","n","g","s",","," ",
                "v","u","l","n","e","r","a","b","l","e"," ","r","o","a","d"," ","u","s","e","r",
                "s",".","\n","T","y","p","i","c","a","l"," ","p","l","a","c","e","m","e","n",
                "t","s",":"," ","r","o","o","f","/","b","u","m","p","e","r"," ","L","i","D","A",
                "R",";"," ","f","r","o","n","t","/","r","e","a","r"," ","r","a","d","a","r",";",
                " ","f","o","r","w","a","r","d"," ","c","a","m","e","r","a"," ","a","t"," ","w",
                "i","n","d","s","h","i","e","l","d"," ","h","e","i","g","h","t",".","\n","N",
                "o","t","e",":"," ","e","x","a","c","t"," ","s","e","n","s","o","r"," ","b","r",
                "a","n","d","s","/","m","o","d","e","l","s"," ","a","r","e"," ","p","r","o","j",
                "e","c","t","-","d","e","p","e","n","d","e","n","t",";"," ","p","r","o","v","i",
                "d","e"," ","y","o","u","r"," ","S","K","U","s"," ","h","e","r","e"," ","i","f",
                " ","y","o","u"," ","w","a","n","t"," ","t","h","e"," ","b","o","t"," ","t","o",
                " ","n","a","m","e"," ","t","h","e","m",".">> ],
  [ id    |-> <<"a","a","v","s","s","-","s","e","n","s","o","r","-","d","e","t","a","i","l","s">>,
    topic |-> "aavss",
    title |-> <<"A","A","V","S","S"," ","~"," ","S","e","n","s","o","r"," ","P","r","a","c","t","i","c","a",
                "l","s">>,
    text  |-> <<"S","a","m","p","l","i","n","g"," ","h","i","n","t","s",":","\n","~"," ","C","a","m","e","r",
                "a",":"," ","3","0"," ","F","P","S"," ","(","1","0","8","0","p","/","7","2","0",
                "p",")",","," ","a","u","t","o","-","e","x","p","o","s","u","r","e"," ","l","o",
                "c","k","e","d"," ","f","o","r"," ","s","t","a","b","i","l","i","t","y"," ","w",
                "h","e","r","e"," ","p","o","s","s","i","b","l","e",".","\n","~"," ","R","a",
                "d","a","r",":"," ","1","0","~","2","0"," ","H","z"," ","o","b","j","e","c","t",
                " ","l","i","s","t","s",";"," ","r","a","w"," ","C","u","b","e"," ","o","p","t",
                "i","o","n","a","l"," ","i","f"," ","D","S","P"," ","a","v","a","i","l","a","b",
                "l","e",".","\n","~"," ","L","i","D","A","R",":"," ","1","0","~","2","0"," ",
                "H","z"," ","s","p","i","n","s",";"," ","t","i","m","e","s","t","a","m","p","e",
                "d"," ","p","o","i","n","t"," ","c","l","o","u","d","s",".","\n","S","y","n",
                "c"," ","&"," ","t","i","m","e","b","a","s","e",":"," ","P","T","P"," ","o","r",
                " ","P","P","S"," ","p","r","e","f","e","r","r","e","d",";"," ","o","t","h","e",
                "r","w","i","s","e"," ","r","o","b","u","s","t"," ","N","T","P"," ","+"," ","s",
                "o","f","t","w","a","r","e"," ","s","y","n","c",".","\n","C","a","l","i","b",
                "r","a","t","i","o","n",":"," ","c","a","m","e","r","a"," ","i","n","t","r","i",
                "n","s","i","c","s"," ","(","O","p","e","n","C","V",")",","," ","c","a","m","e",
                "r","a","~","L","i","D","A","R"," ","e","x","t","r","i","n","s","i","c","s"," ",
                "(","c","h","e","s","s","b","o","a","r","d","/","A","p","r","i","l","T","a","g",
                " ","b","o","a","r","d",")",","," ","r","a","d","a","r"," ","e","x","t","r","i",
                "n","s","i","c","s"," ","(","m","o","u","n","t"," ","g","e","o","m","e","t","r",
                "y"," ","+"," ","t","r","a","c","k"," ","a","l","i","g","n","m","e","n","t",")",
                ".">> ],
  [ id    |-> <<"a","a","v","s","s","-","f","u","s","i","o","n">>,
    topic |-> "aavss",
    title |-> <<"A","A","V","S","S"," ","~"," ","F","u","s","i","o","n"," ","&"," ","T","r","a","c","k","i",
                "n","g">>,
    text  |-> <<"F","u","s","i","o","n"," ","p","i","p","e","l","i","n","e"," ","(","t","y","p","i","c","a",
                "l",")",":","\n","1",")"," ","P","e","r","-","s","e","n","s","o","r"," ","d",
                "e","t","e","c","t","i","o","n",":"," ","v","i","s","i","o","n"," ","d","e","t",
                "e","c","t","o","r"," ","(","Y","O","L","O","-","c","l","a","s","s",")",","," ",
                "l","a","n","e"," ","s","e","g","m","e","n","t","a","t","i","o","n"," ","(","E",
                "N","e","t","/","S","e","g","N","e","t","-","c","l","a","s","s",")",","," ","r",
                "a","d","a","r"," ","o","b","j","e","c","t"," ","l","i","s","t",","," ","L","i",
                "D","A","R"," ","c","l","u","s","t","e","r","i","n","g","/","g","r","o","u","n",
                "d"," ","r","e","m","o","v","a","l",".","\n","2",")"," ","A","s","s","o","c",
                "i","a","t","i","o","n",":"," ","n","e","a","r","e","s","t","-","n","e","i","g",
                "h","b","o","r"," ","o","r"," ","H","u","n","g","a","r","i","a","n"," ","w","i",
                "t","h"," ","g","a","t","i","n","g"," ","(","p","o","s","i","t","i","o","n","/",
                "v","e","l","o","c","i","t","y","/","a","p","p","e","a","r","a","n","c","e",")",
                ".","\n","3",")"," ","T","r","a","c","k","i","n","g",":"," ","K","a","l","m",
                "a","n","/","U","K","F"," ","p","e","r","-","o","b","j","e","c","t"," ","w","i",
                "t","h"," ","t","r","a","c","k"," ","l","i","f","e","c","y","c","l","e"," ","(",
                "b","i","r","t","h",","," ","c","o","n","f","i","r","m",","," ","o","c","c","l",
                "u","s","i","o","n",","," ","d","e","l","e","t","e",")",".","\n","4",")"," ",
                "L","a","t","e","/","o","b","j","e","c","t","-","l","e","v","e","l"," ","f","u",
                "s","i","o","n"," ","o","u","t","p","u","t",":"," ","u","n","i","f","i","e","d",
                " ","o","b","s","t","a","c","l","e"," ","l","i","s","t"," ","w","i","t","h"," ",
                "c","o","n","f","i","d","e","n","c","e"," ","a","n","d"," ","k","i","n","e","m",
                "a","t","i","c","s",".","\n","5",")"," ","F","r","e","e","-","s","p","a","c",
                "e",":"," ","L","i","D","A","R"," ","g","r","o","u","n","d"," ","s","e","g","m",
                "e","n","t","a","t","i","o","n"," ","+"," ","c","a","m","e","r","a"," ","s","e",
                "m","a","n","t","i","c","s"," ","(","o","p","t","i","o","n","a","l",")"," ","f",
                "o","r"," ","d","r","i","v","a","b","l","e"," ","a","r","e","a",".">> ],
  [ id    |-> <<"a","a","v","s","s","-","s","a","f","e","t","y","-","a","n","a","l","y","t","i","c","s">>,
    topic |-> "aavss",
    title |-> <<"A","A","V","S","S"," ","~"," ","S","a","f","e","t","y"," ","A","n","a","l","y","t","i","c",
                "s">>,
    text  |-> <<"S","a","f","e","t","y"," ","a","n","a","l","y","t","i","c","s",":","\n","~"," ","F","o","r",
                "w","a","r","d"," ","C","o","l","l","i","s","i","o","n"," ","W","a","r","n","i",
                "n","g"," ","(","F","C","W",")",":"," ","t","i","m","e","-","t","o","-","c","o",
                "l","l","i","s","i","o","n"," ","t","h","r","e","s","h","o","l","d","s"," ","a",
                "n","d"," ","b","r","a","k","i","n","g"," ","e","n","v","e","l","o","p","e",".",
                "\n","~"," ","P","e","d","e","s","t","r","i","a","n"," ","&"," ","c","y","c",
                "l","i","s","t"," ","a","w","a","r","e","n","e","s","s",":"," ","p","r","o","a",
                "c","t","i","v","e"," ","a","l","e","r","t","s"," ","w","i","t","h","i","n"," ",
                "c","o","n","f","i","g","u","r","a","b","l","e"," ","d","i","s","t","a","n","c",
                "e"," ","c","o","n","e","s",".","\n","~"," ","B","l","i","n","d","-","s","p",
                "o","t"," ","h","i","n","t","s",":"," ","s","i","d","e"," ","r","a","d","a","r",
                "/","c","a","m","e","r","a"," ","o","c","c","u","p","a","n","c","y",".","\n",
                "~"," ","R","o","a","d"," ","s","u","r","f","a","c","e"," ","&"," ","w","e","a",
                "t","h","e","r"," ","r","o","b","u","s","t","n","e","s","s",":"," ","r","a","d",
                "a","r"," ","a","i","d","s"," ","v","i","s","i","o","n"," ","i","n"," ","r","a",
                "i","n","/","f","o","g","/","n","i","g","h","t",".","\n","U","I",":"," ","c",
                "o","n","c","i","s","e"," ","H","U","D"," ","p","r","o","m","p","t","s",";"," ",
                "a","u","d","i","o"," ","h","a","p","t","i","c","s"," ","o","p","t","i","o","n",
                "a","l",".">> ],
  [ id    |-> <<"a","a","v","s","s","-","c","o","m","p","u","t","e">>,
    topic |-> "aavss",
    title |-> <<"A","A","V","S","S"," ","~"," ","C","o","m","p","u","t","e"," ","&"," ","O","p","t","i","m",
                "i","z","a","t","i","o","n">>,
    text  |-> <<"C","o","m","p","u","t","e",":"," ","N","V","I","D","I","A"," ","J","e","t","s","o","n"," ",
                "N","a","n","o","-","c","l","a","s","s"," ","(","M","a","x","w","e","l","l"," ",
                "1","2","8","-","c","o","r","e"," ","G","P","U",")"," ","w","i","t","h"," ","4",
                " ","G","B"," ","R","A","M",".","\n","O","p","t","i","m","i","z","a","t","i",
                "o","n","s",":"," ","T","e","n","s","o","r","R","T"," ","F","P","1","6","/","I",
                "N","T","8"," ","w","h","e","r","e"," ","a","v","a","i","l","a","b","l","e",",",
                " ","l","a","y","e","r"," ","f","u","s","i","o","n",","," ","s","m","a","l","l",
                "e","r"," ","b","a","c","k","b","o","n","e","s",".","\n","P","i","p","e","l",
                "i","n","e","s",":"," ","z","e","r","o","-","c","o","p","y"," ","c","a","m","e",
                "r","a"," ","c","a","p","t","u","r","e",";"," ","r","i","n","g","-","b","u","f",
                "f","e","r"," ","L","i","D","A","R",";"," ","b","a","t","c","h","e","d"," ","r",
                "a","d","a","r"," ","l","i","s","t","s",";"," ","p","i","n","n","e","d"," ","m",
                "e","m","o","r","y",".","\n","B","u","d","g","e","t",":"," ","k","e","e","p",
                " ","t","o","t","a","l"," ","G","P","U"," ","<","8","0","%"," ","a","n","d"," ",
                "C","P","U"," ","<","7","0","%"," ","t","o"," ","l","e","a","v","e"," ","h","e",
                "a","d","r","o","o","m"," ","f","o","r"," ","b","u","r","s","t","s",".">> ],
  [ id    |-> <<"a","a","v","s","s","-","t","e","s","t","i","n","g">>,
    topic |-> "aavss",
    title |-> <<"A","A","V","S","S"," ","~"," ","T","e","s","t","i","n","g"," ","&"," ","M","e","t","r","i",
                "c","s">>,
    text  |-> <<"O","f","f","l","i","n","e"," ","e","v","a","l",":"," ","m","A","P","@","5","0"," ","f","o",
                "r"," ","d","e","t","e","c","t","o","r","s",","," ","M","O","T","A","/","M","O",
                "T","P"," ","f","o","r"," ","t","r","a","c","k","i","n","g",","," ","l","a","n",
                "e"," ","I","o","U","/","F","1"," ","f","o","r"," ","s","e","g","m","e","n","t",
                "a","t","i","o","n",".","\n","O","n","l","i","n","e"," ","e","v","a","l",":",
                " ","e","n","d","-","t","o","-","e","n","d"," ","l","a","t","e","n","c","y",",",
                " ","m","i","s","s","e","d"," ","d","e","t","e","c","t","i","o","n"," ","r","a",
                "t","e",","," ","f","a","l","s","e"," ","a","l","e","r","t"," ","r","a","t","e",
                ","," ","a","l","e","r","t"," ","l","e","a","d"," ","t","i","m","e",".","\n",
                "S","c","e","n","a","r","i","o"," ","c","o","v","e","r","a","g","e",":"," ","d",
                "a","y","/","n","i","g","h","t",","," ","r","a","i","n",","," ","f","o","g",",",
                " ","u","r","b","a","n"," ","c","o","n","g","e","s","t","i","o","n",","," ","r",
                "u","r","a","l"," ","r","o","a","d","s",","," ","h","i","g","h","w","a","y","s",
                ".">> ],
  [ id    |-> <<"a","a","v","s","s","-","l","i","m","i","t","a","t","i","o","n","s">>,
    topic |-> "aavss",
    title |-> <<"A","A","V","S","S"," ","~"," ","L","i","m","i","t","a","t","i","o","n","s"," ","&"," ","R",
                "o","a","d","m","a","p">>,
    text  |-> <<"K","n","o","w","n"," ","l","i","m","i","t","a","t","i","o","n","s"," ","(","g","e","n","e",
                "r","i","c",")",":"," ","h","e","a","v","y"," ","r","a","i","n"," ","c","a","n",
                " ","d","e","g","r","a","d","e"," ","c","a","m","e","r","a",";"," ","L","i","D",
                "A","R"," ","c","a","n"," ","s","a","t","u","r","a","t","e"," ","i","n"," ","s",
                "n","o","w",";"," ","r","a","d","a","r"," ","g","h","o","s","t","i","n","g"," ",
                "n","e","a","r"," ","m","e","t","a","l","l","i","c"," ","i","n","f","r","a","s",
                "t","r","u","c","t","u","r","e",".","\n","R","o","a","d","m","a","p"," ","(",
                "e","x","a","m","p","l","e",")",":"," ","t","h","e","r","m","a","l"," ","c","a",
                "m","e","r","a"," ","n","i","g","h","t"," ","b","o","o","s","t",";"," ","r","a",
                "d","a","r","-","o","n","l","y"," ","f","a","l","l","b","a","c","k"," ","m","o",
                "d","e",";"," ","i","m","p","r","o","v","e","d"," ","e","g","o","-","l","a","n",
                "e"," ","t","o","p","o","l","o","g","y",";"," ","H","D"," ","m","a","p"," ","h",
                "o","o","k","s",".">> ],
  [ id    |-> <<"s","l","d","-","o","v","e","r","v","i","e","w">>,
    topic |-> "sldataset",
    title |-> <<"S","r","i"," ","L","a","n","k","a","n"," ","A","u","t","o","n","o","m","o","u","s"," ","D",
                "r","i","v","i","n","g"," ","D","a","t","a","s","e","t"," ","~"," ","O","v","e",
                "r","v","i","e","w">>,
    text  |-> <<"D","a","t","a","s","e","t"," ","t","h","e","m","e",":"," ","l","e","f","t","-","h","a","n",
                "d"," ","t","r","a","f","f","i","c",","," ","d","e","n","s","e"," ","m","i","x",
                "e","d"," ","f","l","e","e","t","s"," ","(","t","u","k","-","t","u","k","s",",",
                " ","b","u","s","e","s",","," ","b","i","k","e","s",")",","," ","v","a","r","i",
                "e","d"," ","w","e","a","t","h","e","r"," ","(","s","u","n",","," ","r","a","i",
                "n",","," ","f","o","g",")",","," ","a","n","d"," ","n","a","r","r","o","w"," ",
                "u","r","b","a","n"," ","r","o","a","d","s","."," ","I","n","t","e","n","d","e",
                "d"," ","u","s","e",":"," ","p","e","r","c","e","p","t","i","o","n"," ","r","e",
                "s","e","a","r","c","h"," ","(","d","e","t","e","c","t","i","o","n",","," ","t",
                "r","a","c","k","i","n","g",","," ","l","a","n","e",","," ","s","i","g","n"," ",
                "r","e","c","o","g","n","i","t","i","o","n",")"," ","a","n","d"," ","d","o","m",
                "a","i","n"," ","a","d","a","p","t","a","t","i","o","n"," ","f","o","r"," ","S",
                "o","u","t","h"," ","A","s","i","a","n"," ","r","o","a","d","s",".">> ],
  [ id    |-> <<"s","l","d","-","c","o","l","l","e","c","t","i","o","n">>,
    topic |-> "sldataset",
    title |-> <<"D","a","t","a","s","e","t"," ","~"," ","C","o","l","l","e","c","t","i","o","n"," ","&"," ",
                "M","o","d","a","l","i","t","i","e","s">>,
    text  |-> <<"M","o","d","a","l","i","t","i","e","s"," ","(","t","y","p","i","c","a","l"," ","d","e","s",
                "i","g","n",")",":"," ","f","o","r","w","a","r","d","-","f","a","c","i","n","g",
                " ","R","G","B"," ","v","i","d","e","o"," ","(","1","0","8","0","p","/","3","0",
                ")",","," ","o","p","t","i","o","n","a","l"," ","s","i","d","e"," ","c","a","m",
                "s",","," ","G","P","S","/","I","M","U"," ","m","e","t","a","d","a","t","a",".",
                "\n","C","o","n","d","i","t","i","o","n","s",":"," ","d","a","y",","," ","n",
                "i","g","h","t",","," ","r","a","i","n",","," ","f","o","g",";"," ","u","r","b",
                "a","n"," ","c","o","r","e","s"," ","a","n","d"," ","s","u","b","u","r","b","a",
                "n","/","r","u","r","a","l"," ","c","o","n","n","e","c","t","o","r","s",".",
                "\n","N","o","t","e",":"," ","R","e","p","l","a","c","e"," ","w","i","t","h",
                " ","e","x","a","c","t"," ","c","a","m","e","r","a"," ","m","a","k","e","s",",",
                " ","r","e","s","o","l","u","t","i","o","n","s",","," ","m","o","u","n","t"," ",
                "h","e","i","g","h","t","s",","," ","a","n","d"," ","r","o","u","t","e","s"," ",
                "w","h","e","n"," ","f","i","n","a","l","i","z","e","d",".">> ],
  [ id    |-> <<"s","l","d","-","a","n","n","o","t","a","t","i","o","n","s">>,
    topic |-> "sldataset",
    title |-> <<"D","a","t","a","s","e","t"," ","~"," ","A","n","n","o","t","a","t","i","o","n","s">>,
    text  |-> <<"A","n","n","o","t","a","t","i","o","n","s"," ","(","t","y","p","i","c","a","l"," ","p","l",
                "a","n",")",":","\n","~"," ","O","b","j","e","c","t"," ","2","D"," ","b","o",
                "x","e","s",":"," ","v","e","h","i","c","l","e","s",","," ","b","u","s","e","s",
                ","," ","t","u","k","-","t","u","k","s",","," ","t","r","u","c","k","s",","," ",
                "b","i","k","e","s",","," ","p","e","d","e","s","t","r","i","a","n","s",","," ",
                "a","n","i","m","a","l","s",".","\n","~"," ","L","a","n","e"," ","m","a","r",
                "k","i","n","g","s",":"," ","p","o","l","y","l","i","n","e","s"," ","w","i","t",
                "h"," ","t","y","p","e"," ","(","d","a","s","h","e","d",","," ","s","o","l","i",
                "d",")"," ","w","h","e","n"," ","a","v","a","i","l","a","b","l","e",".","\n",
                "~"," ","T","r","a","f","f","i","c"," ","s","i","g","n","s","/","l","i","g","h",
                "t","s",":"," ","c","a","t","e","g","o","r","y"," ","a","n","d"," ","s","t","a",
                "t","e"," ","(","e",".","g",".",","," ","r","e","d","/","y","e","l","l","o","w",
                "/","g","r","e","e","n",")",".","\n","~"," ","F","r","a","m","e"," ","t","a",
                "g","s",":"," ","w","e","a","t","h","e","r",","," ","t","i","m","e","-","o","f",
                "-","d","a","y",","," ","r","o","a","d"," ","t","y","p","e",".","\n","P","l",
                "e","a","s","e"," ","f","i","l","l"," ","i","n"," ","e","x","a","c","t"," ","a",
                "n","n","o","t","a","t","i","o","n"," ","s","p","e","c","s"," ","a","n","d"," ",
                "t","o","o","l","i","n","g"," ","(","e",".","g",".",","," ","C","V","A","T","/",
                "L","a","b","e","l"," ","S","t","u","d","i","o",")"," ","w","h","e","n"," ","l",
                "o","c","k","e","d",".">> ],
  [ id    |-> <<"s","l","d","-","s","p","l","i","t","s","-","m","e","t","r","i","c","s">>,
    topic |-> "sldataset",
    title |-> <<"D","a","t","a","s","e","t"," ","~"," ","S","p","l","i","t","s"," ","&"," ","M","e","t","r",
                "i","c","s">>,
    text  |-> <<"R","e","c","o","m","m","e","n","d","e","d"," ","s","p","l","i","t","s",":"," ","t","r","a",
                "i","n","/","v","a","l","/","t","e","s","t"," ","w","i","t","h"," ","r","o","u",
                "t","e","-","l","e","v","e","l"," ","s","e","p","a","r","a","t","i","o","n"," ",
                "t","o"," ","m","i","n","i","m","i","z","e"," ","l","e","a","k","a","g","e",".",
                "\n","M","e","t","r","i","c","s",":"," ","m","A","P","@","5","0"," ","f","o",
                "r"," ","d","e","t","e","c","t","i","o","n",","," ","c","l","a","s","s","-","w",
                "i","s","e"," ","F","1",","," ","l","a","n","e"," ","I","o","U","/","F","1",";",
                " ","p","u","b","l","i","s","h"," ","p","e","r","-","c","o","n","d","i","t","i",
                "o","n"," ","b","r","e","a","k","d","o","w","n","s",".">> ],
  [ id    |-> <<"s","l","d","-","d","i","s","t","r","i","b","u","t","i","o","n">>,
    topic |-> "sldataset",
    title |-> <<"D","a","t","a","s","e","t"," ","~"," ","D","i","s","t","r","i","b","u","t","i","o","n"," ",
                "&"," ","L","i","c","e","n","s","e">>,
    text  |-> <<"D","i","s","t","r","i","b","u","t","i","o","n",":"," ","d","o","w","n","l","o","a","d","a",
                "b","l","e"," ","p","a","c","k","a","g","e","s"," ","p","e","r"," ","c","i","t",
                "y","/","c","o","n","d","i","t","i","o","n",";"," ","c","h","e","c","k","s","u",
                "m"," ","m","a","n","i","f","e","s","t","s",".","\n","L","i","c","e","n","s",
                "e",":"," ","r","e","s","e","a","r","c","h","-","f","r","i","e","n","d","l","y",
                ";"," ","c","o","n","t","a","c","t"," ","m","a","i","n","t","a","i","n","e","r",
                "s"," ","f","o","r"," ","c","o","m","m","e","r","c","i","a","l"," ","t","e","r",
                "m","s",".","\n","C","i","t","a","t","i","o","n","s",":"," ","i","n","c","l",
                "u","d","e"," ","B","i","b","T","e","X"," ","w","h","e","n"," ","p","u","b","l",
                "i","c",".">> ],
  [ id    |-> <<"s","l","d","-","u","n","i","q","u","e","s">>,
    topic |-> "sldataset",
    title |-> <<"D","a","t","a","s","e","t"," ","~"," ","S","r","i"," ","L","a","n","k","a"," ","S","p","e",
                "c","i","f","i","c","s">>,
    text  |-> <<"D","i","s","t","i","n","c","t","i","v","e","s",":"," ","l","e","f","t","-","h","a","n","d",
                " ","t","r","a","f","f","i","c",","," ","d","e","n","s","e"," ","b","u","s"," ",
                "c","o","r","r","i","d","o","r","s",","," ","t","u","k","-","t","u","k"," ","b",
                "e","h","a","v","i","o","r",","," ","f","r","e","q","u","e","n","t"," ","u","n",
                "p","r","o","t","e","c","t","e","d"," ","t","u","r","n","s",","," ","z","e","b",
                "r","a"," ","c","r","o","s","s","i","n","g","s"," ","w","i","t","h","o","u","t",
                " ","s","i","g","n","a","l","s",","," ","o","c","c","a","s","i","o","n","a","l",
                " ","a","n","i","m","a","l"," ","c","r","o","s","s","i","n","g","s",".","\n",
                "S","i","g","n","a","g","e","/","l","i","n","g","u","a","l",":"," ","S","i","n",
                "h","a","l","a","/","T","a","m","i","l","/","E","n","g","l","i","s","h",";"," ",
                "e","n","s","u","r","e"," ","l","a","b","e","l"," ","t","a","x","o","n","o","m",
                "y"," ","i","n","c","l","u","d","e","s"," ","l","o","c","a","l"," ","s","i","g",
                "n"," ","c","l","a","s","s","e","s",".">> ],
  [ id    |-> <<"q","a","-","s","e","n","s","o","r","s","-","u","n","k","n","o","w","n","-","m","o","d","e",
                "l","s">>,
    topic |-> "aavss",
    title |-> <<"Q","&","A"," ","~"," ","S","e","n","s","o","r"," ","M","o","d","e","l","s"," ","P","o","l",
                "i","c","y">>,
    text  |-> <<"I","f"," ","a","s","k","e","d"," ","f","o","r"," ","e","x","a","c","t"," ","s","e","n","s",
                "o","r"," ","b","r","a","n","d","s","/","m","o","d","e","l","s"," ","a","n","d",
                " ","t","h","e","y"," ","a","r","e"," ","n","o","t"," ","l","i","s","t","e","d",
                " ","i","n"," ","t","h","i","s"," ","K","B",","," ","r","e","p","l","y"," ","t",
                "h","a","t"," ","t","h","e"," ","s","p","e","c","i","f","i","c"," ","S","K","U",
                "s"," ","w","e","r","e"," ","n","o","t"," ","p","r","o","v","i","d","e","d"," ",
                "i","n"," ","t","h","e"," ","p","r","o","j","e","c","t"," ","n","o","t","e","s",
                "."," ","O","f","f","e","r"," ","t","o"," ","i","n","t","e","g","r","a","t","e",
                " ","t","h","e","m"," ","i","f"," ","t","h","e"," ","u","s","e","r"," ","s","h",
                "a","r","e","s"," ","t","h","e"," ","l","i","s","t"," ","(","t","h","e"," ","b",
                "o","t"," ","c","a","n"," ","r","e","m","e","m","b","e","r"," ","o","n","c","e",
                " ","K","B"," ","i","s"," ","u","p","d","a","t","e","d",")",".">> ],
  [ id    |-> <<"q","a","-","w","h","e","r","e","-","t","o","-","a","d","d","-","s","p","e","c","i","f","i",
                "c","s">>,
    topic |-> "all",
    title |-> <<"Q","&","A"," ","~"," ","H","o","w"," ","t","o"," ","A","d","d"," ","S","p","e","c","i","f",
                "i","c","s">>,
    text  |-> <<"T","o"," ","i","n","c","r","e","a","s","e"," ","p","r","e","c","i","s","i","o","n",","," ",
                "a","d","d"," ","c","o","n","c","r","e","t","e"," ","f","a","c","t","s"," ","(",
                "s","e","n","s","o","r"," ","S","K","U","s",","," ","c","a","m","e","r","a"," ",
                "r","e","s","o","l","u","t","i","o","n",","," ","m","i","l","e","s"," ","o","f",
                " ","d","a","t","a",","," ","l","a","b","e","l"," ","c","o","u","n","t","s",")",
                " ","i","n","t","o"," ","t","h","e"," ","K","B"," ","d","o","c","s"," ","a","b",
                "o","v","e","."," ","T","h","e"," ","a","s","s","i","s","t","a","n","t"," ","w",
                "i","l","l"," ","s","t","r","i","c","t","l","y"," ","a","n","s","w","e","r"," ",
                "f","r","o","m"," ","K","B",","," ","p","r","e","v","e","n","t","i","n","g"," ",
                "h","a","l","l","u","c","i","n","a","t","i","o","n","s",".">> ]
>>

\* KB.docs of the Node handler's predecessor; a character outside ASCII is written ~
KB_node0 == <<
  [ id    |-> <<"a","a","v","s","s","-","o","v","e","r","v","i","e","w">>,
    topic |-> "aavss",
    title |-> <<"A","A","V","S","S"," ","~"," ","O","v","e","r","v","i","e","w">>,
    text  |-> <<"A","A","V","S","S"," ","(","A","d","v","a","n","c","e","d"," ","A","u","t","o","n","o","m",
                "o","u","s"," ","V","e","h","i","c","l","e"," ","S","a","f","e","t","y"," ","S",
                "y","s","t","e","m",")"," ","i","s"," ","a"," ","r","e","a","l","-","t","i","m",
                "e"," ","s","a","f","e","t","y"," ","&"," ","p","e","r","c","e","p","t","i","o",
                "n"," ","s","t","a","c","k","."," ","F","o","c","u","s",":"," ","r","o","a","d",
                "-","h","a","z","a","r","d"," ","a","w","a","r","e","n","e","s","s",","," ","d",
                "r","i","v","e","r"," ","a","l","e","r","t","s",","," ","r","e","s","e","a","r",
                "c","h"," ","p","r","o","t","o","t","y","p","i","n","g","."," ","C","o","r","e",
                ":"," ","m","u","l","t","i","-","s","e","n","s","o","r"," ","f","u","s","i","o",
                "n"," ","(","L","i","D","A","R"," ","+"," ","m","m","W","a","v","e"," ","r","a",
                "d","a","r"," ","+"," ","R","G","B"," ","c","a","m","e","r","a","s",")","."," ",
                "T","a","r","g","e","t",":"," ","N","V","I","D","I","A"," ","J","e","t","s","o",
                "n"," ","(","N","a","n","o","-","c","l","a","s","s",")"," ","w","i","t","h"," ",
                "T","e","n","s","o","r","R","T"," ","o","p","t","i","m","i","z","a","t","i","o",
                "n","s","."," ","L","a","t","e","n","c","y"," ","t","a","r","g","e","t",":"," ",
                "s","u","b","-","1","0","0"," ","m","s"," ","e","n","d","-","t","o","-","e","n",
                "d"," ","a","t"," ","~","1","0","~","2","0"," ","F","P","S",","," ","s","e","n",
                "s","o","r","/","m","o","d","e","l"," ","d","e","p","e","n","d","e","n","t",
                ".">> ],
  [ id    |-> <<"a","a","v","s","s","-","s","e","n","s","o","r","s">>,
    topic |-> "aavss",
    title |-> <<"A","A","V","S","S"," ","~"," ","S","e","n","s","o","r","s"," ","&"," ","R","o","l","e","s">>,
    text  |-> <<"L","i","D","A","R"," ","~"," ","3","D"," ","s","t","r","u","c","t","u","r","e","/","r","a",
                "n","g","e","/","f","r","e","e","-","s","p","a","c","e",";"," ","R","a","d","a",
                "r"," ","~"," ","r","a","n","g","e"," ","+"," ","r","a","d","i","a","l"," ","v",
                "e","l","o","c","i","t","y"," ","(","r","o","b","u","s","t"," ","i","n"," ","r",
                "a","i","n","/","f","o","g",")",";"," ","R","G","B"," ","C","a","m","e","r","a",
                "s"," ","~"," ","a","p","p","e","a","r","a","n","c","e",":"," ","t","r","a","f",
                "f","i","c"," ","l","i","g","h","t","s","/","s","i","g","n","s",","," ","l","a",
                "n","e","s",","," ","V","R","U","s","."," ","T","y","p","i","c","a","l"," ","p",
                "l","a","c","e","m","e","n","t","s",":"," ","r","o","o","f","/","b","u","m","p",
                "e","r"," ","L","i","D","A","R",";"," ","f","r","o","n","t","/","r","e","a","r",
                " ","r","a","d","a","r",";"," ","f","o","r","w","a","r","d"," ","c","a","m","e",
                "r","a"," ","a","t"," ","w","i","n","d","s","h","i","e","l","d"," ","h","e","i",
                "g","h","t",".">> ],
  [ id    |-> <<"s","l","d","-","o","v","e","r","v","i","e","w">>,
    topic |-> "sldataset",
    title |-> <<"S","r","i"," ","L","a","n","k","a"," ","A","u","t","o","n","o","m","o","u","s"," ","D","r",
                "i","v","i","n","g"," ","D","a","t","a","s","e","t"," ","~"," ","O","v","e","r",
                "v","i","e","w">>,
    text  |-> <<"O","p","e","n"," ","s","e","t"," ","o","f"," ","S","r","i"," ","L","a","n","k","a","n"," ",
                "d","r","i","v","i","n","g"," ","s","c","e","n","a","r","i","o","s"," ","(","u",
                "r","b","a","n"," ","&"," ","r","u","r","a","l",")"," ","a","c","r","o","s","s",
                " ","w","e","a","t","h","e","r","/","t","i","m","e"," ","(","r","a","i","n",",",
                " ","f","o","g",","," ","n","i","g","h","t",")","."," ","I","n","c","l","u","d",
                "e","s"," ","a","n","n","o","t","a","t","i","o","n","s"," ","f","o","r"," ","l",
                "a","n","e","s",","," ","s","i","g","n","s",","," ","h","a","z","a","r","d","s",
                ";"," ","v","i","s","u","a","l"," ","e","x","a","m","p","l","e","s"," ","a","v",
                "a","i","l","a","b","l","e",".">> ],
  [ id    |-> <<"o","w","n","e","r">>,
    topic |-> "all",
    title |-> <<"O","w","n","e","r","s","h","i","p"," ","&"," ","A","u","t","h","o","r","s">>,
    text  |-> <<"O","w","n","e","r"," ","/"," ","c","o","n","c","e","p","t"," ","l","e","a","d",":"," ","*",
                "*","S","a","c","h","i","n","t","h","a"," ","G","a","u","r","a","w","a","*","*",
                " ","(","E","l","e","c","t","r","i","c","a","l"," ","&"," ","E","l","e","c","t",
                "r","o","n","i","c"," ","E","n","g","i","n","e","e","r","i","n","g",")","."," ",
                "P","r","o","j","e","c","t"," ","s","c","o","p","e"," ","i","n","c","l","u","d",
                "e","s"," ","A","A","V","S","S"," ","a","n","d"," ","t","h","e"," ","S","r","i",
                " ","L","a","n","k","a"," ","d","r","i","v","i","n","g"," ","d","a","t","a","s",
                "e","t"," ","i","n","i","t","i","a","t","i","v","e","."," ","I","f"," ","a","s",
                "k","e","d",":"," ","t","h","e"," ","w","o","r","k"," ","s","h","o","w","n"," ",
                "o","n"," ","t","h","i","s"," ","s","i","t","e"," ","i","s"," ","o","w","n","e",
                "d"," ","a","n","d"," ","c","u","r","a","t","e","d"," ","b","y"," ","S","a","c",
                "h","i","n","t","h","a"," ","G","a","u","r","a","w","a",".">> ],
  [ id    |-> <<"a","b","o","u","t","-","s","a","c","h","i","n","t","h","a">>,
    topic |-> "all",
    title |-> <<"W","h","o"," ","i","s"," ","S","a","c","h","i","n","t","h","a"," ","G","a","u","r","a","w",
                "a","?">>,
    text  |-> <<"S","a","c","h","i","n","t","h","a"," ","G","a","u","r","a","w","a"," ","i","s"," ","t","h",
                "e"," ","c","r","e","a","t","o","r","/","m","a","i","n","t","a","i","n","e","r",
                " ","o","f"," ","t","h","i","s"," ","p","o","r","t","f","o","l","i","o",","," ",
                "a","n","d"," ","t","h","e"," ","o","w","n","e","r","/","c","o","n","c","e","p",
                "t"," ","l","e","a","d"," ","b","e","h","i","n","d"," ","A","A","V","S","S"," ",
                "a","n","d"," ","t","h","e"," ","S","r","i"," ","L","a","n","k","a","n"," ","d",
                "r","i","v","i","n","g"," ","d","a","t","a","s","e","t","."," ","F","o","c","u",
                "s"," ","a","r","e","a","s",":"," ","e","m","b","e","d","d","e","d"," ","A","I",
                ","," ","s","e","n","s","o","r"," ","f","u","s","i","o","n",","," ","a","n","d",
                " ","a","p","p","l","i","e","d"," ","p","e","r","c","e","p","t","i","o","n"," ",
                "f","o","r"," ","d","r","i","v","e","r"," ","s","a","f","e","t","y",".">> ]
>>

KBdocs(v) == IF v = "node" THEN KB_node ELSE IF v = "node0" THEN KB_node0 ELSE KB_edge

\* normalize(`${d.title}\n${d.text}`) of every KB doc of the Node handler,
\* the text scoreText scans (the KB never changes, so it is computed once)
KBscanned_node ==
    [i \in 1..Len(KB_node) |-> normalize(KB_node[i].title \o <<NL>> \o KB_node[i].text)]

\* normalize(`${d.title} ${d.text}`) of every KB doc of the predecessor
KBscanned_node0 ==
    [i \in 1..Len(KB_node0) |-> normalize(KB_node0[i].title \o <<SP>> \o KB_node0[i].text)]

\* normalize(`${doc.title} ${doc.text}`) of every KB doc of the edge function
KBscanned_edge ==
    [i \in 1..Len(KB_edge) |-> normalize(KB_edge[i].title \o <<SP>> \o KB_edge[i].text)]

ID_aavssOverview == <<"a","a","v","s","s","-","o","v","e","r","v","i","e","w">>
ID_sldOverview == <<"s","l","d","-","o","v","e","r","v","i","e","w">>
ID_aboutOwner == <<"a","b","o","u","t","-","o","w","n","e","r">>

\* chunks as ingestion stores them: id docId::n, page n
CH_brake1 ==
  [ id    |-> <<"m","a","n","u","a","l",":",":","1">>,
    title |-> <<"B","r","a","k","e"," ","g","u","i","d","e">>,
    text  |-> <<"b","r","a","k","e"," ","p","a","d","s"," ","a","n","d"," ","r","o","t","o","r","s">>,
    page  |-> 1,
    url   |-> <<"h","t","t","p","s",":","/","/","x",".","i","o","/","m",".","p","d","f">> ]

CH_brake2 ==
  [ id    |-> <<"m","a","n","u","a","l",":",":","2">>,
    title |-> <<"B","r","a","k","e"," ","g","u","i","d","e">>,
    text  |-> <<"b","l","e","e","d","i","n","g"," ","t","h","e"," ","b","r","a","k","e"," ","l","i","n","e",
                "s">>,
    page  |-> 2,
    url   |-> <<"h","t","t","p","s",":","/","/","x",".","i","o","/","m",".","p","d","f">> ]

CH_lidar ==
  [ id    |-> <<"s","p","e","c",":",":","1">>,
    title |-> <<"L","i","d","a","r"," ","s","p","e","c">>,
    text  |-> <<"l","i","d","a","r"," ","l","i","d","a","r"," ","r","a","n","g","e">>,
    page  |-> 1,
    url   |-> <<"h","t","t","p","s",":","/","/","x",".","i","o","/","m",".","p","d","f">> ]

CH_short ==
  [ id    |-> <<"s",":",":","1">>,
    title |-> <<"B","r","a","k","e">>,
    text  |-> <<>>,
    page  |-> 1,
    url   |-> <<"h","t","t","p","s",":","/","/","x",".","i","o","/","m",".","p","d","f">> ]

CH_top ==
  [ id    |-> <<"p","a","d",":",":","1">>,
    title |-> <<"z","q">>,
    text  |-> <<"q","j">>,
    page  |-> 1,
    url   |-> <<"h","t","t","p","s",":","/","/","x",".","i","o","/","m",".","p","d","f">> ]

CH_weak2 ==
  [ id    |-> <<"p","a","d",":",":","2">>,
    title |-> <<"q","j","x">>,
    text  |-> <<>>,
    page  |-> 2,
    url   |-> <<"h","t","t","p","s",":","/","/","x",".","i","o","/","m",".","p","d","f">> ]

CH_weak3 ==
  [ id    |-> <<"p","a","d",":",":","3">>,
    title |-> <<"q","j","x">>,
    text  |-> <<>>,
    page  |-> 3,
    url   |-> <<"h","t","t","p","s",":","/","/","x",".","i","o","/","m",".","p","d","f">> ]

CH_weak4 ==
  [ id    |-> <<"p","a","d",":",":","4">>,
    title |-> <<"q","j","x">>,
    text  |-> <<>>,
    page  |-> 4,
    url   |-> <<"h","t","t","p","s",":","/","/","x",".","i","o","/","m",".","p","d","f">> ]

CH_weak5 ==
  [ id    |-> <<"p","a","d",":",":","5">>,
    title |-> <<"q","j","x">>,
    text  |-> <<>>,
    page  |-> 5,
    url   |-> <<"h","t","t","p","s",":","/","/","x",".","i","o","/","m",".","p","d","f">> ]

CH_weak6 ==
  [ id    |-> <<"p","a","d",":",":","6">>,
    title |-> <<"q","j","x">>,
    text  |-> <<>>,
    page  |-> 6,
    url   |-> <<"h","t","t","p","s",":","/","/","x",".","i","o","/","m",".","p","d","f">> ]

CH_weak7 ==
  [ id    |-> <<"p","a","d",":",":","7">>,
    title |-> <<"q","j","x">>,
    text  |-> <<>>,
    page  |-> 7,
    url   |-> <<"h","t","t","p","s",":","/","/","x",".","i","o","/","m",".","p","d","f">> ]

CH_weak8 ==
  [ id    |-> <<"p","a","d",":",":","8">>,
    title |-> <<"q","j","x">>,
    text  |-> <<>>,
    page  |-> 8,
    url   |-> <<"h","t","t","p","s",":","/","/","x",".","i","o","/","m",".","p","d","f">> ]

\* how the read of /api/docs.json can end: the docs arrive; fetch rejects;
\* a non-OK status with an {error} body; a body that is not JSON; JSON
\* without a docs array; a docs array that holds null
ReadOutcomes == {"ok", "networkError", "nonOk", "notJson", "noDocsArray", "nullEntry"}

\* a null entry of a docs array
NullEntry == [null |-> TRUE]

\* readDocsStore().docs: what the retrieval receives of the docs held
readDocsStore(outcome, held) ==
    IF outcome = "ok" THEN held
    ELSE IF outcome = "nullEntry" THEN <<NullEntry>>
    ELSE <<>>

\* .map(ch => ({ id: ch.id, ... })) reads a property of every entry, which
\* throws a TypeError on null
entriesAreObjects(store) == \A i \in 1..Len(store) : DOMAIN store[i] # {"null"}

\* the contents the store can have when a request reads it
Stores == {
    <<>>,
    <<CH_brake1, CH_brake2>>,
    <<CH_lidar, CH_short>>,
    <<CH_weak2, CH_weak3, CH_weak4, CH_top, CH_weak5, CH_weak6, CH_weak7, CH_weak8>>
}

(***************************************************************************)
(* Retrieval                                                               *)
(***************************************************************************)
K == 8

\* a retrieved unit: its kind, its index in KB.docs or in store.docs, its score
Unit(type, ix, s) == [type |-> type, ix |-> ix, s |-> s]

UnitDoc(v, store, u) == IF u.type = "kb" THEN KBdocs(v)[u.ix] ELSE store[u.ix]
UnitTitle(v, store, u) == UnitDoc(v, store, u).title
UnitText(v, store, u) == UnitDoc(v, store, u).text
UnitId(v, store, u) == UnitDoc(v, store, u).id

\* Array.prototype.sort((a, b) => b.s - a.s): stable, descending by score
RECURSIVE insertDesc(_, _)
insertDesc(sorted, u) ==
    IF sorted = <<>> THEN <<u>>
    ELSE IF Head(sorted).s >= u.s THEN <<Head(sorted)>> \o insertDesc(Tail(sorted), u)
         ELSE <<u>> \o sorted

\* an ordering step that leaves the units as they were inserted
unsorted(units) == units

RECURSIVE sortDesc(_)
sortDesc(units) ==
    IF units = <<>> THEN <<>>
    ELSE insertDesc(sortDesc(SubSeq(units, 1, Len(units) - 1)), units[Len(units)])

slice(units, k) == SubSeq(units, 1, IF Len(units) < k THEN Len(units) ELSE k)

\* a lookup that finds no KB doc
kbByIdNone(v, ids, s) == <<>>

\* KB.docs.filter(d => d.id === id).map(d => unit), in KB order
kbById(v, ids, s) ==
    LET hit == SelectSeq(Indices(Len(KBdocs(v))), LAMBDA i : KBdocs(v)[i].id \in ids)
    IN  [j \in 1..Len(hit) |-> Unit("kb", hit[j], s)]

\* the KB pool of the Node handler's topK
admitNode(topic, d) == d.topic = topic \/ d.topic = "all" \/ topic = "about"

kbPoolNode(topic) ==
    IF topic = "all" THEN Indices(Len(KB_node))
    ELSE SelectSeq(Indices(Len(KB_node)), LAMBDA i : admitNode(topic, KB_node[i]))

\* a fallback that serves the dataset and about topics only
overviewNoAavss(topic) ==
    IF topic = "sldataset" THEN kbById("node", {ID_sldOverview}, 1)
    ELSE IF topic = "about" THEN kbById("node", {ID_aboutOwner}, 1)
    ELSE <<>>

\* the fallback of the Node handler's topK when nothing scored
overviewNode(topic) ==
    IF topic = "aavss" THEN kbById("node", {ID_aavssOverview}, 1)
    ELSE IF topic = "sldataset" THEN kbById("node", {ID_sldOverview}, 1)
    ELSE IF topic = "about" THEN kbById("node", {ID_aboutOwner}, 1)
    ELSE <<>>

\* topK(question, k, topic) of the Node handler
topKNode(question, k, topic, store) ==
    LET qTok == TOK(question)
        pool == kbPoolNode(topic)
        kbAll == [j \in 1..Len(pool) |->
                    Unit("kb", pool[j], sumTokens(KBscanned_node[pool[j]], qTok, 1))]
        kbRanked == SelectSeq(kbAll, LAMBDA u : u.s > 0)
        pdfAll == [i \in 1..Len(store) |->
                    Unit("pdf", i, scoreText(qTok, store[i].title \o <<NL>> \o store[i].text))]
        pdfRanked == SelectSeq(pdfAll, LAMBDA u : u.s > 0)
        all == slice(sortDesc(kbRanked \o pdfRanked), k)
    IN  IF all = <<>> THEN overviewNode(topic) ELSE all

\* topK(q, k, topic) of the edge function: KB only
topKEdge(question, k, topic) ==
    LET qTokens == split(normalize(question))
        pool == SelectSeq(Indices(Len(KB_edge)), LAMBDA i :
                    IF topic \in {"aavss", "sldataset"}
                    THEN KB_edge[i].topic = topic \/ KB_edge[i].topic = "all"
                    ELSE TRUE)
        scored == [j \in 1..Len(pool) |->
                    Unit("kb", pool[j], scoreDocNormalized(qTokens, KBscanned_edge[pool[j]]))]
        ranked == slice(sortDesc(SelectSeq(scored, LAMBDA u : u.s > 0)), k)
    IN  IF ranked = <<>>
        THEN IF topic = "aavss" THEN kbById("edge", {ID_aavssOverview}, 0)
             ELSE IF topic = "sldataset" THEN kbById("edge", {ID_sldOverview}, 0)
             ELSE kbById("edge", {ID_aavssOverview, ID_sldOverview}, 0)
        ELSE ranked

\* topK(req, q, k, topic) of the Node handler's predecessor
topKNode0(question, k, topic, store) ==
    LET tokens == split(normalize(question))
        pool == SelectSeq(Indices(Len(KB_node0)), LAMBDA i :
                    IF topic = "all" THEN TRUE
                    ELSE KB_node0[i].topic = topic \/ KB_node0[i].topic = "all")
        kbAll == [j \in 1..Len(pool) |->
                    Unit("kb", pool[j], sumTokens(KBscanned_node0[pool[j]], tokens, 1))]
        kbRanked == SelectSeq(kbAll, LAMBDA u : u.s > 0)
        pdfAll == [i \in 1..Len(store) |->
                    Unit("pdf", i, scoreText(tokens, store[i].title \o <<SP>> \o store[i].text))]
        pdfRanked == SelectSeq(pdfAll, LAMBDA u : u.s > 0)
        all == slice(sortDesc(kbRanked \o pdfRanked), k)
    IN  IF all = <<>>
        THEN IF topic = "aavss" THEN kbById("node0", {ID_aavssOverview}, 0)
             ELSE IF topic = "sldataset" THEN kbById("node0", {ID_sldOverview}, 0)
             ELSE kbById("node0", {ID_aavssOverview, ID_sldOverview}, 0)
        ELSE all

topK(v, question, k, topic, store) ==
    IF v = "node" THEN topKNode(question, k, topic, store)
    ELSE IF v = "node0" THEN topKNode0(question, k, topic, store)
    ELSE topKEdge(question, k, topic)

RECURSIVE sumScores(_)
sumScores(units) == IF units = <<>> THEN 0 ELSE Head(units).s + sumScores(Tail(units))

\* a confidence that divides by the score of the last unit
confidenceByLast(units) ==
    IF units = <<>> THEN <<0, 1>>
    ELSE <<sumScores(units), Len(units) * units[Len(units)].s>>

\* a confidence that averages over k, not over the units selected
confidenceOverK(units) ==
    IF units = <<>> THEN <<0, 1>>
    ELSE LET scores == {units[i].s : i \in 1..Len(units)} \cup {1}
             maxUnit == CHOOSE m \in scores : \A x \in scores : m >= x
         IN  <<sumScores(units), K * maxUnit>>

\* confidence of buildContext as the fraction <<sum of s, n * maxUnit>>,
\* maxUnit = Math.max(...s, 1), capped by Math.min(1, ...); <<0, 1>> for an
\* empty bundle
confidenceOf(units) ==
    IF units = <<>> THEN <<0, 1>>
    ELSE LET scores == {units[i].s : i \in 1..Len(units)} \cup {1}
             maxUnit == CHOOSE m \in scores : \A x \in scores : m >= x
             sum == sumScores(units)
         IN  IF sum > Len(units) * maxUnit THEN <<1, 1>>
             ELSE <<sum, Len(units) * maxUnit>>

(***************************************************************************)
(* Retrieval runs: question, store and variant are drawn in RetrInit; the  *)
(* handler classifies the question, then retrieves.                        *)
(***************************************************************************)
MaxQWords == 2

Q_lidar == <<"l","i","d","a","r">>
Q_dataset == <<"d","a","t","a","s","e","t">>
Q_owner == <<"o","w","n","e","r">>
Q_who == <<"w","h","o">>
Q_is == <<"i","s">>
Q_asdkjasd == <<"a","s","d","k","j","a","s","d">>
Q_sensors == <<"s","e","n","s","o","r","s">>
Q_adas == <<"a","d","a","s">>
Q_brake == <<"b","r","a","k","e">>
Q_RadarQ == <<"R","a","d","a","r","?">>

QuestionWords ==
    {Q_lidar, Q_dataset, Q_owner, Q_who, Q_is, Q_asdkjasd, Q_sensors, Q_adas, Q_brake, Q_RadarQ}

RECURSIVE WordQuestions(_)
WordQuestions(n) ==
    IF n = 1 THEN QuestionWords
    ELSE LET shorter == WordQuestions(n - 1)
         IN  shorter \cup {q \o <<SP>> \o w : q \in shorter, w \in QuestionWords}

Q_whatSensors ==
    <<"W","h","a","t"," ","s","e","n","s","o","r","s"," ","d","o","e","s"," ","i","t"," ","u","s",
      "e","?">>
Q_lowConfidence ==
    <<"z","q"," ","z","q"," ","z","q"," ","z","q"," ","z","q"," ","z","q"," ","z","q"," ","z","q",
      " ","z","q"," ","z","q"," ","z","q"," ","q","j">>

\* a question that most KB docs and every chunk of the largest store match
Q_isQj == <<"i","s"," ","q","j">>

Questions == WordQuestions(MaxQWords) \cup {Q_whatSensors, Q_lowConfidence, Q_isQj}

ScoreIdle ==
    /\ scTokens = <<>> /\ scText = <<>> /\ scBody = <<>> /\ scPc = "off" /\ scResult = 0

RetrInit ==
    /\ ScoreIdle
    /\ ReqIdle
    /\ PolishIdle
    /\ IngestIdle
    /\ SkillIdle
    /\ rtVariant \in {"node", "node0", "edge"}
    /\ rtQuestion \in Questions
    /\ rtHint \in IF rtVariant = "edge" THEN {"", "aavss", "sldataset"} ELSE {""}
    /\ rtRead \in IF rtVariant = "edge" THEN {"ok"} ELSE ReadOutcomes
    /\ rtHeld \in IF rtVariant = "edge" THEN {<<>>}
                  ELSE IF rtRead = "ok" THEN Stores ELSE {<<CH_lidar, CH_short>>}
    /\ rtStore = readDocsStore(rtRead, rtHeld)
    /\ rtPc = "start"
    /\ rtTopic = ""
    /\ rtUnits = <<>>
    /\ rtConf = <<0, 1>>

\* const topic = validHint || detectTopic(question)
Classify ==
    /\ rtPc = "start"
    /\ rtTopic' = IF rtHint # "" THEN rtHint ELSE detectTopic(rtVariant, rtQuestion)
    /\ rtPc' = "classified"
    /\ UNCHANGED <<rtVariant, rtQuestion, rtHint, rtHeld, rtRead, rtStore, rtUnits, rtConf>>
    /\ UNCHANGED scoreVars
    /\ UNCHANGED reqVars
    /\ UNCHANGED polishVars
    /\ UNCHANGED ingestVars
    /\ UNCHANGED skillVars

\* topK(question, 8, topic)
Retrieve ==
    /\ rtPc = "classified"
    /\ IF entriesAreObjects(rtStore)
       THEN /\ rtUnits' = topK(rtVariant, rtQuestion, K, rtTopic, rtStore)
            /\ rtConf' = IF rtVariant = "node" THEN confidenceOf(rtUnits') ELSE rtConf
            /\ rtPc' = "retrieved"
       ELSE rtPc' = "threw" /\ UNCHANGED <<rtUnits, rtConf>>
    /\ UNCHANGED <<rtVariant, rtQuestion, rtHint, rtHeld, rtRead, rtStore, rtTopic>>
    /\ UNCHANGED scoreVars
    /\ UNCHANGED reqVars
    /\ UNCHANGED polishVars
    /\ UNCHANGED ingestVars
    /\ UNCHANGED skillVars

RetrNext == Classify \/ Retrieve

SpecRetrieve == RetrInit /\ [][RetrNext]_vars

\* d.topic of a returned unit; a PDF chunk carries no topic field
UnitTopic(v, store, u) ==
    IF u.type = "kb" THEN KBdocs(v)[u.ix].topic ELSE "undefined"

RetrDone == rtPc = "retrieved"
RetrEnded == rtPc \in {"retrieved", "threw"}
RetrClassified == rtPc \in {"classified", "retrieved"}

\* the words ws occur side by side in the token list
ContiguousIn(ws, toks) ==
    \E i \in 1..(Len(toks) - Len(ws) + 1) : SubSeq(toks, i, i + Len(ws) - 1) = ws

\* the indices of the keyword groups one of whose keywords the question's
\* normalized tokens spell
GroupsHit(v, question) ==
    {i \in 1..Len(TopicGroups(v)) :
        \E kw \in TopicGroups(v)[i].keywords : ContiguousIn(split(kw), TOK(question))}

\* C10: the classifier returns the domain of the first keyword group, in the
\* fixed priority order, that matches the normalized question, even when a
\* later group matches too, and returns all exactly when no group matches.
C10_FirstMatchWins ==
    (RetrClassified /\ rtHint = "") =>
        LET hit == GroupsHit(rtVariant, rtQuestion)
        IN  IF hit = {} THEN rtTopic = "all"
            ELSE /\ rtTopic = TopicGroups(rtVariant)[CHOOSE i \in hit : \A j \in hit : i <= j].domain
                 /\ rtTopic # "all"

\* a question matching two groups was classified into the earlier one
C10_Witness ==
    /\ RetrClassified /\ rtHint = ""
    /\ {1, 2} \subseteq GroupsHit(rtVariant, rtQuestion)
    /\ rtTopic = "aavss"

LexicalOverlap(question, store) ==
    \E tok \in {TOK(question)[i] : i \in 1..Len(TOK(question))} :
        \/ \E i \in 1..Len(KB_node) : includes(KBscanned_node[i], tok)
        \/ \E i \in 1..Len(store) :
              includes(normalize(store[i].title \o <<NL>> \o store[i].text), tok)

C6_TopicExclusive ==
    (RetrDone /\ rtTopic \in {"aavss", "sldataset", "about"}) =>
        \A j \in 1..Len(rtUnits) :
            UnitTopic(rtVariant, rtStore, rtUnits[j]) \in {rtTopic, "all"}

(***************************************************************************)
(* The request handlers: the Node handler ("node"), the edge function      *)
(* ("edge"), the chat handler ("chat") and the context proxy ("ai").       *)
(***************************************************************************)
S_ping ==
    <<"_","_","p","i","n","g","_","_">>

S_apologyNode ==
    <<"I"," ","c","o","u","l","d","n","~","t"," ","r","e","a","c","h"," ","t","h","e"," ","A","I",
      " ","p","r","o","v","i","d","e","r","s"," ","j","u","s","t"," ","n","o","w","."," ","H",
      "e","r","e","~","s"," ","a"," ","c","o","n","c","i","s","e"," ","s","u","m","m","a","r",
      "y"," ","f","r","o","m"," ","t","h","e"," ","k","n","o","w","l","e","d","g","e"," ","b",
      "a","s","e",":","\n","\n">>

S_noMatchNode ==
    <<"N","o"," ","K","B"," ","m","a","t","c","h","e","s"," ","f","o","u","n","d",".">>

S_apologyEdge ==
    <<"I"," ","c","o","u","l","d"," ","n","o","t"," ","r","e","a","c","h"," ","t","h","e"," ","A",
      "I"," ","p","r","o","v","i","d","e","r","s"," ","r","i","g","h","t"," ","n","o","w",",",
      " ","s","o"," ","h","e","r","e"," ","i","s"," ","a"," ","c","o","n","c","i","s","e"," ",
      "s","u","m","m","a","r","y"," ","f","r","o","m"," ","t","h","e"," ","K","B",":">>

S_noMatchEdge ==
    <<"N","o"," ","K","B"," ","m","a","t","c","h","e","s"," ","f","o","u","n","d","."," ","P","l",
      "e","a","s","e"," ","r","e","f","i","n","e"," ","y","o","u","r"," ","q","u","e","s","t",
      "i","o","n",".">>

S_clarify ==
    <<"I"," ","c","a","n"," ","h","e","l","p"," ","b","e","s","t"," ","i","f"," ","I"," ","k","n",
      "o","w"," ","t","h","e"," ","t","o","p","i","c","."," ","W","h","i","c","h"," ","w","o",
      "u","l","d"," ","y","o","u"," ","l","i","k","e"," ","t","o"," ","t","a","l","k"," ","a",
      "b","o","u","t","?"," ","(","A","A","V","S","S",","," ","D","a","t","a","s","e","t",",",
      " ","o","r"," ","A","b","o","u","t",")"," ","~","~">>

S_fromPdf ==
    <<" ","(","f","r","o","m"," ","P","D","F",")">>

S_placeholder ==
    <<"I"," ","d","o","n","~","t"," ","h","a","v","e"," ","a","n"," ","a","n","s","w","e","r"," ",
      "f","o","r"," ","t","h","a","t"," ","y","e","t"," ","~"," ","c","o","u","l","d"," ","y",
      "o","u"," ","r","e","p","h","r","a","s","e","?">>

S_sorryChat ==
    <<"S","u","r","e"," ","~"," ","I","~","m"," ","h","a","v","i","n","g"," ","t","r","o","u","b",
      "l","e"," ","r","e","a","c","h","i","n","g"," ","m","y"," ","A","I"," ","p","r","o","v",
      "i","d","e","r","s","."," ","P","l","e","a","s","e"," ","t","r","y"," ","a","g","a","i",
      "n"," ","s","h","o","r","t","l","y",".">>

S_followupsChat ==
    <<"\n","\n","*","*","F","o","l","l","o","w","-","u","p"," ","q","u","e","s","t","i","o","n","s",
      ":","*","*","\n","-"," ","W","a","n","t"," ","a"," ","b","r","i","e","f"," ","s","u","m",
      "m","a","r","y","?","\n","-"," ","N","e","e","d"," ","a"," ","c","h","e","c","k","l","i",
      "s","t","?","\n","-"," ","G","e","n","e","r","a","t","e"," ","a","n"," ","i","m","a","g",
      "e"," ","(","/","g","e","n"," ","~",")","?">>

S_greet ==
    <<"H","i"," ","t","h","e","r","e","!"," ","I","'","m"," ","y","o","u","r"," ","a","s","s","i",
      "s","t","a","n","t"," ","~","~"," "," ","A","s","k"," ","m","e"," ","a","b","o","u","t",
      " ","*","*","A","A","V","S","S","*","*",","," ","t","h","e"," ","*","*","S","r","i"," ",
      "L","a","n","k","a"," ","d","a","t","a","s","e","t","*","*",","," ","o","r"," ","u","p",
      "l","o","a","d"," ","a"," ","P","D","F"," ","f","o","r"," ","d","e","e","p","e","r"," ",
      "a","n","s","w","e","r","s",".","\n","I"," ","c","a","n"," ","a","l","s","o"," ","*","*",
      "g","e","n","e","r","a","t","e"," ","i","m","a","g","e","s","*","*"," ","o","r"," ","*",
      "*","b","r","o","w","s","e"," ","r","e","f","e","r","e","n","c","e","s","*","*","."," ",
      "W","h","a","t"," ","s","h","a","l","l"," ","w","e"," ","d","o"," ","f","i","r","s","t",
      "?">>

S_thanks ==
    <<"Y","o","u","~","r","e"," ","w","e","l","c","o","m","e","!"," ","~","~"," "," ","W","a","n",
      "t"," ","m","e"," ","t","o"," ","s","u","m","m","a","r","i","z","e"," ","s","o","m","e",
      "t","h","i","n","g"," ","n","e","x","t","?">>

S_bye ==
    <<"G","o","o","d","b","y","e","!"," ","~","~"," ","I","f"," ","y","o","u"," ","n","e","e","d",
      " ","m","e"," ","a","g","a","i","n",","," ","j","u","s","t"," ","o","p","e","n"," ","t",
      "h","e"," ","a","s","s","i","s","t","a","n","t",".">>

S_missing ==
    <<"M","i","s","s","i","n","g"," ","q","u","e","s","t","i","o","n">>

S_missingChat ==
    <<"M","i","s","s","i","n","g"," ","\"","q","u","e","s","t","i","o","n","\"",".">>

S_missingAi ==
    <<"M","i","s","s","i","n","g"," ","q","u","e","s","t","i","o","n","/","c","o","n","t","e","x",
      "t">>

S_tooLong ==
    <<"Q","u","e","s","t","i","o","n"," ","t","o","o"," ","l","o","n","g">>

S_allFailed ==
    <<"N","o"," ","p","r","o","v","i","d","e","r"," ","a","v","a","i","l","a","b","l","e"," ","o",
      "r"," ","a","l","l"," ","p","r","o","v","i","d","e","r","s"," ","f","a","i","l","e","d",
      ".">>

CTX_album ==
    <<"L","i","D","A","R"," ","a","l","b","u","m">>

S_noKeys ==
    <<"N","o"," ","p","r","o","v","i","d","e","r"," ","A","P","I"," ","k","e","y","s"," ","c","o",
      "n","f","i","g","u","r","e","d",".">>

R_reply ==
    <<"L","i","D","A","R"," ","a","n","d"," ","r","a","d","a","r",".","\n","\n","\n","\n","A","s",
      "k"," ","m","o","r","e","."," "," ">>

Q_hi ==
    <<"h","i">>

Q_blank ==
    <<" "," ">>

Q_whoIs ==
    <<"w","h","o"," ","i","s">>

Q_history ==
    <<"h","i","s","t","o","r","y">>

ST_greet == {
    <<"h","i">>,
    <<"h","e","y">>,
    <<"h","e","l","l","o">>,
    <<"a","y","u","b","o","w","a","n">>,
    <<"g","o","o","d"," ","m","o","r","n","i","n","g">>,
    <<"g","o","o","d"," ","e","v","e","n","i","n","g">>,
    <<"g","o","o","d"," ","a","f","t","e","r","n","o","o","n">>
}

ST_thanks == {
    <<"t","h","a","n","k","s">>,
    <<"t","h","a","n","k"," ","y","o","u">>,
    <<"c","h","e","e","r","s">>,
    <<"a","p","p","r","e","c","i","a","t","e">>
}

ST_bye == {
    <<"b","y","e">>,
    <<"g","o","o","d","b","y","e">>,
    <<"s","e","e"," ","y","o","u">>,
    <<"c","a","t","c","h"," ","y","o","u">>
}

\* the providers in the order the handlers list them
Providers == <<"groq", "deepinfra", "gemini">>

ProviderNames == {Providers[i] : i \in 1..Len(Providers)}

\* Number.prototype.toString of a non-negative integer
DigitChar(d) == <<"0","1","2","3","4","5","6","7","8","9">>[d + 1]

RECURSIVE itoa(_)
itoa(n) == IF n < 10 THEN <<DigitChar(n)>> ELSE itoa(n \div 10) \o <<DigitChar(n % 10)>>

\* Array.prototype.join
RECURSIVE join(_, _)
join(parts, sep) ==
    IF parts = <<>> THEN <<>>
    ELSE IF Len(parts) = 1 THEN parts[1]
    ELSE parts[1] \o sep \o join(Tail(parts), sep)

\* .replace(/\n{3,}/g, "\n\n"): a run of three or more newlines becomes two
collapseNewlines(s) ==
    LET keep == SelectSeq(Indices(Len(s)),
                    LAMBDA i : ~(s[i] = NL /\ i > 2 /\ s[i - 1] = NL /\ s[i - 2] = NL))
    IN  [j \in 1..Len(keep) |-> s[keep[j]]]

\* answer.trim().replace(/\n{3,}/g, "\n\n")
gentlePolish(s) == collapseNewlines(trim(s))

\* .replace(/(^#+\s*$)/gm, ''): scanning from position i, a match starts at
\* a line start with a run of '#', then takes the longest run of whitespace
\* that stops at a line end
RECURSIVE stripHeadings(_, _)
stripHeadings(s, i) ==
    IF i > Len(s) THEN <<>>
    ELSE IF s[i] = "#" /\ (i = 1 \/ s[i - 1] = NL)
    THEN LET hashEnd == CHOOSE j \in (i + 1)..(Len(s) + 1) :
                            /\ \A m \in i..(j - 1) : s[m] = "#"
                            /\ (j = Len(s) + 1 \/ s[j] # "#")
             stops == {e \in hashEnd..(Len(s) + 1) :
                            /\ \A m \in hashEnd..(e - 1) : IsSpace(s[m])
                            /\ (e = Len(s) + 1 \/ s[e] = NL)}
         IN  IF stops = {} THEN <<s[i]>> \o stripHeadings(s, i + 1)
             ELSE stripHeadings(s, CHOOSE e \in stops : \A f \in stops : e >= f)
    ELSE <<s[i]>> \o stripHeadings(s, i + 1)

\* polishAnswer of the chat handler
polishAnswer(s) ==
    LET t == trim(s)
    IN  IF t = <<>> THEN S_placeholder
        ELSE stripHeadings(collapseNewlines(t), 1)

\* \w of the regular expressions, on a normalized string
IsWordChar(c) == c \in LowerAlpha \cup Digits \cup {"_"}

\* smallTalk(question): "greet" | "thanks" | "bye" | "none"
smallTalk(question) ==
    LET q == normalize(question)
    IN  IF \E w \in ST_greet :
               startsWith(q, w) /\ (Len(q) = Len(w) \/ ~IsWordChar(q[Len(w) + 1]))
        THEN "greet"
        ELSE IF \E w \in ST_thanks : startsWith(q, w) THEN "thanks"
        ELSE IF \E w \in ST_bye : startsWith(q, w) THEN "bye"
        ELSE "none"

smallTalkReply(type) ==
    IF type = "greet" THEN S_greet ELSE IF type = "thanks" THEN S_thanks ELSE S_bye

\* ctx of buildContext: "#i title\ntext" blocks joined by a blank line
contextText(v, store, units) ==
    join([i \in 1..Len(units) |->
            <<"#">> \o itoa(i) \o <<SP>> \o UnitTitle(v, store, units[i])
                \o <<NL>> \o UnitText(v, store, units[i])],
         <<NL, NL>>)

\* one provenance id of buildContext
provenanceId(v, store, u) ==
    IF v = "edge" THEN UnitId(v, store, u)
    ELSE IF u.type = "pdf"
    THEN <<"p","d","f",":">> \o UnitId(v, store, u) \o <<"|">> \o UnitTitle(v, store, u)
            \o <<"|","p","a","g","e","=">> \o itoa(UnitDoc(v, store, u).page)
            \o <<"|">> \o UnitDoc(v, store, u).url
    ELSE <<"k","b",":">> \o UnitId(v, store, u) \o <<"|">> \o UnitTitle(v, store, u)

\* a provenance list that names the first unit only
provenanceTopOnly(v, store, units) ==
    IF units = <<>> THEN <<>> ELSE <<provenanceId(v, store, units[1])>>

provenanceIds(v, store, units) ==
    [i \in 1..Len(units) |-> provenanceId(v, store, units[i])]

\* confidence < 0.15
belowThreshold(conf) == 20 * conf[1] < 3 * conf[2]

MinCtxLen == 20

\* a handler without the gate
gateOff(ctx, conf) == FALSE

\* !ctx || ctx.length < 20 || confidence < 0.15
gate(ctx, conf) == ctx = <<>> \/ Len(ctx) < MinCtxLen \/ belowThreshold(conf)

\* const [kind, rest] = id.split(":") of the Node handler's fallback
decodedKind(id) == splitOn(id, ":")[1]

\* rest.split("|")[0]: the KB id of a kb identifier, the title of a pdf one
decodedFirst(id) ==
    LET pieces == splitOn(id, ":")
    IN  IF Len(pieces) < 2 THEN <<>> ELSE splitOn(pieces[2], "|")[1]

\* the stitched KB text of the Node handler's fallback
stitchNode(ids) ==
    LET part(i) ==
            LET pieces == splitOn(ids[i], ":")
                kind == pieces[1]
                rest == pieces[2]
                first == splitOn(rest, "|")[1]
                hit == SelectSeq(KB_node, LAMBDA d : d.id = first)
            IN  IF kind = <<"k","b">>
                THEN IF hit = <<>> THEN <<>>
                     ELSE <<"(">> \o itoa(i) \o <<")", SP>> \o hit[1].title
                            \o <<NL>> \o hit[1].text
                ELSE IF kind = <<"p","d","f">>
                THEN <<"(">> \o itoa(i) \o <<")", SP>> \o first \o S_fromPdf
                ELSE <<>>
    IN  join(SelectSeq([i \in 1..Len(ids) |-> part(i)], LAMBDA x : x # <<>>), <<NL, NL>>)

\* the stitched KB text of the edge function's fallback
stitchEdge(ids) ==
    LET part(i) ==
            LET hit == SelectSeq(KB_edge, LAMBDA d : d.id = ids[i])
            IN  IF hit = <<>> THEN <<>>
                ELSE <<"(">> \o itoa(i) \o <<")", SP>> \o hit[1].title \o <<NL>> \o hit[1].text
    IN  join(SelectSeq([i \in 1..Len(ids) |-> part(i)], LAMBDA x : x # <<>>), <<NL, NL>>)

\* the answer of the kb-fallback branch, before the final polish
fallbackAnswer(v, ids) ==
    IF v = "node"
    THEN S_apologyNode \o (IF stitchNode(ids) = <<>> THEN S_noMatchNode ELSE stitchNode(ids))
    ELSE join(<<S_apologyEdge, <<>>,
                IF stitchEdge(ids) = <<>> THEN S_noMatchEdge ELSE stitchEdge(ids)>>, <<NL>>)

\* an order that keeps every allowed name, with or without a key
getOrderUnfiltered(raw, keys) ==
    SelectSeq(IF raw = <<>> THEN <<"groq", "deepinfra", "gemini">> ELSE raw,
              LAMBDA p : p \in {"groq", "deepinfra", "gemini"})

\* getOrder() of the chat handler; raw is AI_PROVIDER_ORDER after
\* split/trim/lowercase, <<>> when the variable is unset
getOrder(raw, keys) ==
    LET list == IF raw = <<>> THEN Providers ELSE raw
    IN  SelectSeq(SelectSeq(list, LAMBDA p : p \in ProviderNames), LAMBDA p : p \in keys)

\* the provider list the cascade of a handler loops over
providerList(v, raw, keys) ==
    IF v \in {"node", "ai"} THEN SelectSeq(Providers, LAMBDA p : p \in keys)
    ELSE IF v = "edge" THEN Providers
    ELSE getOrder(raw, keys)

\* what a provider adapter returns for the upstream text raw
adapterText(v, raw) == IF v = "chat" THEN raw ELSE trim(raw)

\* a cascade that never stops on a returned text
endsCascadeNever(v, text) == FALSE

\* the cascade stops after a call returned: if (answer) break in the Node
\* handler and the edge function, an unconditional return in the other two
endsCascade(v, text) == v \in {"chat", "ai"} \/ text # <<>>

DefaultTimeoutMs == 30000

MaxQuestionLen == 2000

\* a handler that reports an exhausted loop as an error
exhaustedStatusError(v) == 502

\* the status sent when the loop ran out of providers
exhaustedStatus(v) == IF v = "ai" THEN 502 ELSE 200

Response(status, kind, provider, answer, sources, error) ==
    [status |-> status, kind |-> kind, provider |-> provider, answer |-> answer,
     sources |-> sources, error |-> error]

(***************************************************************************)
(* One request: the environment (keys, provider order, store) and the      *)
(* body are drawn in ReqInit; the handler runs up to its first provider    *)
(* call, then one step per settled call.  The chat requests modelled carry *)
(* no chat_id and are neither slash commands nor image requests.            *)
(***************************************************************************)
\* the bodies and stores of the requests: <<question, topicHint, docs>>
NodeRequests ==
    {<<q, "", <<>>>> : q \in {<<>>, Q_blank, S_ping, Q_hi, Q_asdkjasd, Q_lidar, Q_whatSensors}}
    \cup {<<Q_lidar, "", <<CH_lidar, CH_short>>>>,
          <<Q_brake, "", <<CH_brake1, CH_brake2>>>>,
          <<Q_brake, "", <<CH_lidar, CH_short>>>>,
          <<Q_lowConfidence, "", <<CH_weak2, CH_weak3, CH_weak4, CH_top, CH_weak5, CH_weak6,
                                   CH_weak7, CH_weak8>>>>}

EdgeRequests ==
    {<<q, "", <<>>>> : q \in {<<>>, Q_blank, S_ping, Q_asdkjasd, Q_lidar, Q_whatSensors}}
    \cup {<<Q_lidar, "sldataset", <<>>>>}

ChatRequests == {<<q, "", <<>>>> : q \in {<<>>, Q_blank, Q_hi, Q_lidar}}

\* the bodies of the context proxy: <<question, context>>
AiRequests == {<<<<>>, CTX_album>>, <<Q_lidar, <<>>>>, <<Q_blank, CTX_album>>, <<Q_lidar, CTX_album>>}

Requests(v) ==
    IF v = "node" THEN NodeRequests ELSE IF v = "edge" THEN EdgeRequests ELSE ChatRequests

\* values of AI_PROVIDER_ORDER
Orders == {<<>>, <<"gemini", "groq">>, <<"groq", "openai", "groq">>}

\* upstream completions: a text, nothing, whitespace
Replies == {R_reply, <<>>, Q_blank}

\* the bundles the requests above can reach the provider loop with
Bundles ==
    {<<v, provenanceIds(v, r[3], topK(v, trim(r[1]), K, t, r[3]))>> :
        v \in {"node", "edge"}, r \in NodeRequests \cup EdgeRequests,
        t \in {"all", "aavss", "sldataset", "about"}}

\* the kb-fallback answer as sent, tabulated over those bundles
fallbackSent == [b \in Bundles |-> gentlePolish(fallbackAnswer(b[1], b[2]))]

ReqInit ==
    /\ ScoreIdle
    /\ RetrIdle
    /\ PolishIdle
    /\ IngestIdle
    /\ SkillIdle
    /\ rqVariant \in {"node", "edge", "chat", "ai"}
    /\ rqKeys \in SUBSET ProviderNames
    /\ rqOrder \in Orders
    /\ IF rqVariant = "ai"
       THEN /\ \E r \in AiRequests : rqQuestion = r[1] /\ rqContext = r[2]
            /\ rqHint = "" /\ rqStore = <<>>
       ELSE /\ \E r \in Requests(rqVariant) :
                  rqQuestion = r[1] /\ rqHint = r[2] /\ rqStore = r[3]
            /\ rqContext = <<>>
    /\ rqPc = "recv"
    /\ rqTopic = "" /\ rqUnits = <<>> /\ rqIds = <<>> /\ rqConf = <<0, 1>>
    /\ rqProviders = <<>> /\ rqAttempts = <<>> /\ rqTimers = {}
    /\ rqAnswer = <<>> /\ rqProvider = ""
    /\ rqResponse = NoResponse

Respond(r) == rqResponse' = r /\ rqPc' = "done"

Routed(topic, units, ids, conf, providers) ==
    /\ rqTopic' = topic /\ rqUnits' = units /\ rqIds' = ids /\ rqConf' = conf
    /\ rqProviders' = providers

\* a handler that takes any body for a question
missingNever(question) == FALSE

\* if (!question), on the trimmed question
missing(question) == question = <<>>

\* the handler from its entry to the start of the provider loop
Receive ==
    /\ rqPc = "recv"
    /\ LET question == trim(rqQuestion)
           topic == IF rqVariant = "edge" /\ rqHint \in {"aavss", "sldataset"} THEN rqHint
                    ELSE detectTopic(rqVariant, question)
           units == topK(rqVariant, question, K, topic, rqStore)
           ctx == contextText(rqVariant, rqStore, units)
           ids == provenanceIds(rqVariant, rqStore, units)
           conf == confidenceOf(units)
           providers == providerList(rqVariant, rqOrder, rqKeys)
       IN  IF rqVariant = "ai"
           THEN /\ UNCHANGED <<rqTopic, rqUnits, rqIds, rqConf>>
                /\ IF rqQuestion = <<>> \/ rqContext = <<>>
                   THEN /\ Respond(Response(400, "error", "", <<>>, <<>>, S_missingAi))
                        /\ UNCHANGED rqProviders
                   ELSE IF Len(rqQuestion) > MaxQuestionLen
                   THEN /\ Respond(Response(413, "error", "", <<>>, <<>>, S_tooLong))
                        /\ UNCHANGED rqProviders
                   ELSE rqProviders' = providers /\ rqPc' = "loop" /\ UNCHANGED rqResponse
           ELSE IF rqVariant = "node" /\ question = S_ping
           THEN /\ Respond(Response(200, "ok", "", <<>>, <<>>, <<>>))
                /\ UNCHANGED <<rqTopic, rqUnits, rqIds, rqConf, rqProviders>>
           ELSE IF missing(question)
           THEN /\ Respond(Response(400, "error", "", <<>>, <<>>,
                                    IF rqVariant = "chat" THEN S_missingChat ELSE S_missing))
                /\ UNCHANGED <<rqTopic, rqUnits, rqIds, rqConf, rqProviders>>
           ELSE IF rqVariant = "node" /\ smallTalk(question) # "none"
           THEN /\ Respond(Response(200, "answer", "smalltalk",
                                    smallTalkReply(smallTalk(question)), <<>>, <<>>))
                /\ UNCHANGED <<rqTopic, rqUnits, rqIds, rqConf, rqProviders>>
           ELSE IF rqVariant = "chat"
           THEN /\ rqProviders' = providers
                /\ UNCHANGED <<rqTopic, rqUnits, rqIds, rqConf>>
                /\ IF providers = <<>>
                   THEN Respond(Response(502, "error", "", <<>>, <<>>, S_noKeys))
                   ELSE rqPc' = "loop" /\ UNCHANGED rqResponse
           ELSE /\ Routed(topic, units, ids, conf, providers)
                /\ IF rqVariant = "node" /\ gate(ctx, conf)
                   THEN Respond(Response(200, "answer", "clarify", S_clarify, <<>>, <<>>))
                   ELSE rqPc' = "loop" /\ UNCHANGED rqResponse
    /\ UNCHANGED <<rqVariant, rqKeys, rqOrder, rqQuestion, rqHint, rqStore, rqContext,
                   rqAttempts, rqTimers, rqAnswer, rqProvider>>
    /\ UNCHANGED scoreVars
    /\ UNCHANGED retrVars
    /\ UNCHANGED polishVars
    /\ UNCHANGED ingestVars
    /\ UNCHANGED skillVars

\* a loop that does not wait for the call it started
notAwaited == rqPc \in {"loop", "calling"}

\* the loop is at its head: the previous call, if any, has settled
awaited == rqPc = "loop"

\* for (const p of providers): withTimeout(30_000), then p.fn(...) is called;
\* an adapter of the edge function throws at once when its key is not set
StartCall ==
    /\ awaited
    /\ Len(rqAttempts) < Len(rqProviders)
    /\ LET n == Len(rqAttempts) + 1
           p == rqProviders[n]
       IN  /\ rqTimers' = rqTimers \cup {n}
           /\ IF p \in rqKeys
              THEN /\ rqAttempts' = Append(rqAttempts,
                          [name |-> p, outcome |-> "pending", ms |-> DefaultTimeoutMs])
                   /\ rqPc' = "calling"
              ELSE /\ rqAttempts' = Append(rqAttempts,
                          [name |-> p, outcome |-> "nokey", ms |-> DefaultTimeoutMs])
                   /\ rqPc' = "loop"
    /\ UNCHANGED <<rqVariant, rqKeys, rqOrder, rqQuestion, rqHint, rqStore, rqContext, rqTopic, rqUnits,
                   rqIds, rqConf, rqProviders, rqAnswer, rqProvider, rqResponse>>
    /\ UNCHANGED scoreVars
    /\ UNCHANGED retrVars
    /\ UNCHANGED polishVars
    /\ UNCHANGED ingestVars
    /\ UNCHANGED skillVars

\* the pending call resolves with the upstream completion raw
ProviderReturns(raw) ==
    /\ rqPc = "calling"
    /\ LET n == Len(rqAttempts)
           p == rqAttempts[n].name
           text == adapterText(rqVariant, raw)
           answer == IF rqVariant = "chat" THEN polishAnswer(text) \o S_followupsChat ELSE text
           provider == IF rqVariant = "node" /\ text = <<>> THEN rqProvider ELSE p
       IN  /\ rqAttempts' = [rqAttempts EXCEPT
                                ![n].outcome = IF trim(raw) # <<>> THEN "text" ELSE "empty"]
           /\ rqTimers' = rqTimers \ {n}
           /\ rqAnswer' = answer
           /\ rqProvider' = provider
           /\ IF endsCascade(rqVariant, text)
              THEN Respond(Response(200, "answer", provider,
                                    IF rqVariant \in {"chat", "ai"} THEN answer
                                    ELSE gentlePolish(answer),
                                    rqIds, <<>>))
              ELSE rqPc' = "loop" /\ UNCHANGED rqResponse
    /\ UNCHANGED <<rqVariant, rqKeys, rqOrder, rqQuestion, rqHint, rqStore, rqContext, rqTopic, rqUnits,
                   rqIds, rqConf, rqProviders>>
    /\ UNCHANGED scoreVars
    /\ UNCHANGED retrVars
    /\ UNCHANGED polishVars
    /\ UNCHANGED ingestVars
    /\ UNCHANGED skillVars

\* the pending call rejects (HTTP error, network error): catch, next provider;
\* only the chat handler (finally) and the context proxy (t.clear() in the
\* catch) clear the timer on this path
ProviderThrows ==
    /\ rqPc = "calling"
    /\ rqAttempts' = [rqAttempts EXCEPT ![Len(rqAttempts)].outcome = "error"]
    /\ rqTimers' = IF rqVariant \in {"chat", "ai"} THEN rqTimers \ {Len(rqAttempts)}
                   ELSE rqTimers
    /\ rqPc' = "loop"
    /\ UNCHANGED <<rqVariant, rqKeys, rqOrder, rqQuestion, rqHint, rqStore, rqContext, rqTopic, rqUnits,
                   rqIds, rqConf, rqProviders, rqAnswer, rqProvider, rqResponse>>
    /\ UNCHANGED scoreVars
    /\ UNCHANGED retrVars
    /\ UNCHANGED polishVars
    /\ UNCHANGED ingestVars
    /\ UNCHANGED skillVars

\* an abort signal no call listens to
signalIgnored(i) == FALSE

\* ac.abort() reaches a call: the call of attempt i is still pending
abortsCall(i) == rqPc = "calling" /\ i = Len(rqAttempts)

\* the timer of attempt i expires: setTimeout(() => ac.abort(), ms)
TimerFires(i) ==
    /\ i \in rqTimers
    /\ rqTimers' = rqTimers \ {i}
    /\ IF abortsCall(i)
       THEN /\ rqAttempts' = [rqAttempts EXCEPT ![i].outcome = "timeout"]
            /\ rqPc' = "loop"
       ELSE UNCHANGED <<rqAttempts, rqPc>>
    /\ UNCHANGED <<rqVariant, rqKeys, rqOrder, rqQuestion, rqHint, rqStore, rqContext, rqTopic, rqUnits,
                   rqIds, rqConf, rqProviders, rqAnswer, rqProvider, rqResponse>>
    /\ UNCHANGED scoreVars
    /\ UNCHANGED retrVars
    /\ UNCHANGED polishVars
    /\ UNCHANGED ingestVars
    /\ UNCHANGED skillVars

\* the loop ran out of providers: kb-fallback (Node, edge), 'none' (chat) or
\* the 502 of the context proxy
Exhausted ==
    /\ rqPc = "loop"
    /\ Len(rqAttempts) = Len(rqProviders)
    /\ IF rqVariant = "ai"
       THEN /\ Respond(Response(exhaustedStatus(rqVariant), "error", "", <<>>, <<>>,
                                S_allFailed))
            /\ UNCHANGED <<rqAnswer, rqProvider>>
       ELSE IF rqVariant = "chat"
       THEN /\ Respond(Response(exhaustedStatus(rqVariant), "answer", "none", S_sorryChat,
                                <<>>, <<>>))
            /\ UNCHANGED <<rqAnswer, rqProvider>>
       ELSE LET answer == IF rqAnswer = <<>> THEN fallbackSent[<<rqVariant, rqIds>>]
                          ELSE gentlePolish(rqAnswer)
                provider == IF rqAnswer = <<>> THEN "kb-fallback" ELSE rqProvider
            IN  /\ rqAnswer' = answer
                /\ rqProvider' = provider
                /\ Respond(Response(exhaustedStatus(rqVariant), "answer", provider, answer,
                                    rqIds, <<>>))
    /\ UNCHANGED <<rqVariant, rqKeys, rqOrder, rqQuestion, rqHint, rqStore, rqContext, rqTopic, rqUnits,
                   rqIds, rqConf, rqProviders, rqAttempts, rqTimers>>
    /\ UNCHANGED scoreVars
    /\ UNCHANGED retrVars
    /\ UNCHANGED polishVars
    /\ UNCHANGED ingestVars
    /\ UNCHANGED skillVars

ReqNext ==
    \/ Receive
    \/ StartCall
    \/ \E raw \in Replies : ProviderReturns(raw)
    \/ ProviderThrows
    \/ \E i \in 1..Len(Providers) : TimerFires(i)
    \/ Exhausted

Spec == ReqInit /\ [][ReqNext]_vars

\* the runtime runs every ready continuation and every due timer; whether a
\* provider ever answers is up to the provider
FairSpec ==
    /\ Spec
    /\ WF_vars(StartCall)
    /\ WF_vars(Exhausted)
    /\ WF_vars(\E i \in 1..Len(Providers) : TimerFires(i))

(***************************************************************************)
(* Properties of the cascade                                               *)
(***************************************************************************)
Outcome(i) == rqAttempts[i].outcome

ResponseSent == rqResponse # NoResponse

\* C1: the cascade calls the providers in the configured order, and the
\* first provider that returns non-empty text ends it: the response carries
\* that provider's name and no later provider is called.
C1_FirstTextEndsCascade ==
    /\ Len(rqAttempts) <= Len(rqProviders)
    /\ \A i \in 1..Len(rqAttempts) : rqAttempts[i].name = rqProviders[i]
    /\ \A i \in 1..Len(rqAttempts) :
          Outcome(i) = "text" =>
              /\ i = Len(rqAttempts)
              /\ rqPc = "done"
              /\ rqResponse.status = 200
              /\ rqResponse.provider = rqProviders[i]

\* the first provider failed, the second answered, the third was never called
C1_Witness ==
    /\ rqPc = "done" /\ Len(rqProviders) = 3 /\ Len(rqAttempts) = 2
    /\ Outcome(1) = "error" /\ Outcome(2) = "text"
    /\ rqResponse.provider = rqProviders[2]

\* every configured provider was called and threw
AllThrew ==
    /\ rqProviders # <<>>
    /\ Len(rqAttempts) = Len(rqProviders)
    /\ \A i \in 1..Len(rqAttempts) : Outcome(i) \in {"error", "nokey"}

\* C2: when every configured provider throws, the retrieval handlers answer
\* with provider kb-fallback and an answer that contains the title of at
\* least one retrieved unit.
C2_FallbackNamesATitle ==
    (rqVariant \in {"node", "edge"} /\ rqPc = "done" /\ AllThrew) =>
        /\ rqResponse.provider = "kb-fallback"
        /\ \E j \in 1..Len(rqUnits) :
              includes(rqResponse.answer, UnitTitle(rqVariant, rqStore, rqUnits[j]))

\* C3: a provider that returns empty text is treated like one that failed:
\* the cascade goes on to the next provider, and a response is attributed to
\* a provider only if that provider returned non-empty text.
C3_EmptyIsFailure ==
    /\ rqResponse.provider \in ProviderNames =>
          \E i \in 1..Len(rqAttempts) :
              rqAttempts[i].name = rqResponse.provider /\ Outcome(i) = "text"
    /\ \A i \in 1..Len(rqAttempts) :
          (Outcome(i) = "empty" /\ i < Len(rqProviders) /\ rqPc = "done") =>
              Len(rqAttempts) > i

\* the Node handler has built its context bundle
Retrieved == rqVariant = "node" /\ rqTopic # ""

\* C4: when the bundle is empty or the confidence is below 0.15, the Node
\* handler answers with the clarification prompt, status 200, and calls no
\* provider at any point of the request.
C4_GateAsksForClarification ==
    (Retrieved /\ (rqUnits = <<>> \/ 100 * rqConf[1] < 15 * rqConf[2])) =>
        /\ rqAttempts = <<>>
        /\ rqPc = "done"
        /\ rqResponse.status = 200
        /\ rqResponse.provider = "clarify"
        /\ rqResponse.answer = S_clarify

\* a question without lexical overlap: empty bundle, clarification sent
C4_Witness ==
    /\ Retrieved /\ rqUnits = <<>> /\ rqKeys # {}
    /\ rqResponse.provider = "clarify" /\ rqResponse.status = 200

\* C7: the cascade is strictly sequential: at most one provider call is in
\* flight, and a provider is only called after every earlier call has
\* failed, timed out or come back empty.
C7_OneCallAtATime ==
    /\ Cardinality({i \in 1..Len(rqAttempts) : Outcome(i) = "pending"}) <= 1
    /\ \A i \in 1..(Len(rqAttempts) - 1) :
          Outcome(i) \in {"error", "nokey", "timeout", "empty"}

\* the second provider is in flight after the first one timed out
C7_Witness ==
    /\ Len(rqAttempts) = 2 /\ Outcome(1) = "timeout" /\ Outcome(2) = "pending"

\* C8: a provider call that never settles is cancelled by its own timer
\* (30 s by default), which moves the cascade on like any other failure, and
\* the request eventually sends a response.
C8_HungCallCannotBlock ==
    /\ [][\A i \in 1..Len(rqAttempts) :
            (Outcome(i) = "pending" /\ rqAttempts'[i].outcome = "timeout") =>
                /\ i \in rqTimers /\ i \notin rqTimers'
                /\ rqAttempts[i].ms = DefaultTimeoutMs
                /\ rqPc' = "loop"
                /\ rqResponse' = rqResponse]_vars
    /\ (rqPc = "calling") ~> ResponseSent

\* a call timed out, a later provider was tried, the response went out
C8_Witness ==
    /\ ResponseSent
    /\ \E i \in 1..(Len(rqAttempts) - 1) : Outcome(i) = "timeout"

(***************************************************************************)
(* Properties of the responses                                             *)
(***************************************************************************)
\* the request got past validation, small talk and the gate
ReachedCascade ==
    /\ rqPc = "done"
    /\ rqResponse.status # 400
    /\ rqResponse.kind # "ok"
    /\ rqResponse.provider \notin {"smalltalk", "clarify"}

\* C11: when no provider has credentials, the request is answered with
\* HTTP 502 and an explanatory message and no provider is invoked.
C11_NoCredentialsIs502 ==
    (ReachedCascade /\ rqKeys = {}) =>
        /\ rqResponse.status = 502
        /\ rqResponse.error # <<>>
        /\ rqAttempts = <<>>

\* C11 (as the code has it): without credentials the chat handler answers
\* 502 with a message and calls nothing, and sends 502 in no other case than
\* an empty provider order; the context proxy answers 502 too, but with the
\* message it also sends when every keyed provider failed; the Node handler
\* calls nothing and sends its kb-fallback answer with status 200; the edge
\* function calls every adapter, each throws before any upstream request,
\* and it sends kb-fallback too.
C11_NoCredentialsPerHandler ==
    /\ (ReachedCascade /\ rqKeys = {}) =>
          IF rqVariant = "chat"
          THEN rqResponse.status = 502 /\ rqResponse.error = S_noKeys /\ rqAttempts = <<>>
          ELSE IF rqVariant = "ai"
          THEN rqResponse.status = 502 /\ rqResponse.error = S_allFailed /\ rqAttempts = <<>>
          ELSE /\ rqResponse.status = 200 /\ rqResponse.provider = "kb-fallback"
               /\ IF rqVariant = "node" THEN rqAttempts = <<>>
                  ELSE /\ Len(rqAttempts) = Len(Providers)
                       /\ \A i \in 1..Len(rqAttempts) : Outcome(i) = "nokey"
    /\ rqResponse.status = 502 =>
          \/ /\ rqVariant = "chat" /\ rqAttempts = <<>>
             /\ \A i \in 1..Len(rqOrder) : rqOrder[i] \notin rqKeys
             /\ (rqOrder = <<>> => rqKeys = {})
          \/ /\ rqVariant = "ai"
             /\ \A i \in 1..Len(rqAttempts) : Outcome(i) \in {"error", "timeout"}

\* the chat handler refused a request because no key is configured
C11_Witness ==
    /\ rqVariant = "chat" /\ rqKeys = {} /\ rqPc = "done"
    /\ rqResponse.status = 502 /\ rqAttempts = <<>>

\* C12: provider failures never produce an error status: a request that
\* carries a question (and, in the context proxy, the context retrieved for
\* it), and for which a provider was tried there, is answered with status 200 whatever errors, timeouts and empty
\* replies its providers produce, and never with 500 or 502.
C12_ProviderFailureIs200 ==
    (/\ rqVariant \in {"node", "edge", "ai"}
     /\ trim(rqQuestion) # <<>>
     /\ rqVariant = "ai" => rqContext # <<>> /\ rqAttempts # <<>>
     /\ rqPc = "done") => rqResponse.status = 200

\* the same statement for the handlers that retrieve by themselves
C12_RetrievingHandlersSend200 ==
    (rqVariant \in {"node", "edge"} /\ trim(rqQuestion) # <<>> /\ rqPc = "done")
        => rqResponse.status = 200

\* C13: a request whose question is missing or blank is answered with
\* status 400, and neither retrieval nor any provider call happens for it.
C13_MissingQuestionIs400 ==
    (rqVariant \in {"node", "edge", "chat"} /\ trim(rqQuestion) = <<>>) =>
        /\ rqPc \in {"recv", "done"}
        /\ rqPc = "done" =>
              /\ rqResponse.status = 400
              /\ rqResponse.error = IF rqVariant = "chat" THEN S_missingChat ELSE S_missing
        /\ rqTopic = "" /\ rqUnits = <<>> /\ rqIds = <<>>
        /\ rqProviders = <<>> /\ rqAttempts = <<>> /\ rqTimers = {}

\* a question of spaces only was refused by a handler that retrieves
C13_Witness ==
    /\ rqVariant \in {"node", "edge"} /\ rqQuestion = Q_blank
    /\ rqPc = "done" /\ rqResponse.status = 400

\* C14: a failure to read the document store (network error, non-OK
\* status, malformed content) never fails the request: retrieval completes
\* and returns exactly what it returns with an empty store.
C14_ReadFailureIsEmptyStore ==
    (rtRead # "ok" /\ RetrEnded) =>
        /\ rtPc = "retrieved"
        /\ rtUnits = topK(rtVariant, rtQuestion, K, rtTopic, <<>>)

\* the same for the failures that readDocsStore catches or filters out
C14_CaughtFailureIsEmptyStore ==
    (rtRead \in {"networkError", "nonOk", "notJson", "noDocsArray"} /\ RetrEnded) =>
        /\ rtPc = "retrieved"
        /\ rtUnits = topK(rtVariant, rtQuestion, K, rtTopic, <<>>)

\* the read failed while the store held a chunk that matches the question
C14_CaughtFailureReached ==
    /\ rtRead = "notJson" /\ RetrDone /\ rtQuestion = Q_lidar
    /\ rtHeld = <<CH_lidar, CH_short>>
    /\ \A j \in 1..Len(rtUnits) : rtUnits[j].type = "kb"

(***************************************************************************)
(* Post-processing runs: a raw answer is drawn in PolishInit and           *)
(* post-processed, and the output is post-processed once more.             *)
(***************************************************************************)
MaxAnswerLen == 5

AnswerAlphabet == {"a", "#", NL, SP}

\* the post-processing of each handler
finalize(v, s) == IF v = "chat" THEN polishAnswer(s) ELSE gentlePolish(s)

PolishInit ==
    /\ ScoreIdle
    /\ RetrIdle
    /\ ReqIdle
    /\ IngestIdle
    /\ SkillIdle
    /\ poVariant \in {"chat", "node"}
    /\ poRaw \in StringsUpTo(AnswerAlphabet, MaxAnswerLen)
    /\ poOnce = <<>> /\ poTwice = <<>>
    /\ poPc = "raw"

Finalize ==
    /\ poPc = "raw"
    /\ poOnce' = finalize(poVariant, poRaw)
    /\ poPc' = "once"
    /\ UNCHANGED <<poVariant, poRaw, poTwice>>
    /\ UNCHANGED scoreVars
    /\ UNCHANGED retrVars
    /\ UNCHANGED reqVars
    /\ UNCHANGED ingestVars
    /\ UNCHANGED skillVars

FinalizeAgain ==
    /\ poPc = "once"
    /\ poTwice' = finalize(poVariant, poOnce)
    /\ poPc' = "twice"
    /\ UNCHANGED <<poVariant, poRaw, poOnce>>
    /\ UNCHANGED scoreVars
    /\ UNCHANGED retrVars
    /\ UNCHANGED reqVars
    /\ UNCHANGED ingestVars
    /\ UNCHANGED skillVars

PolishNext == Finalize \/ FinalizeAgain

SpecPolish == PolishInit /\ [][PolishNext]_vars

\* C15: post-processing is idempotent: post-processing its own output
\* yields that same output.
C15_FinalizeIdempotent == poPc = "twice" => poTwice = poOnce

\* the same for the Node handler's trim and newline collapse alone
C15_TrimCollapseIdempotent ==
    (poPc = "twice" /\ poVariant = "node") => poTwice = poOnce

\* a run of newlines was collapsed and the second pass changed nothing
C15_CollapseReached ==
    /\ poPc = "twice" /\ poVariant = "node"
    /\ poRaw = <<"a", NL, NL, NL, "a">>
    /\ poOnce = <<"a", NL, NL, "a">> /\ poTwice = poOnce

\* stripping a heading left a leading newline, which the second pass trims
C15_SecondPassTrims ==
    /\ poPc = "twice" /\ poVariant = "chat"
    /\ poRaw = <<"#", NL, "a">> /\ poOnce = <<NL, "a">> /\ poTwice = <<"a">>

\* C16: confidence equals the mean over the selected units of (score /
\* maximum score among the selected units); it lies in [0,1] and equals 1
\* when all selected units tie for the top score.
C16_ConfidenceIsMeanOfRatios ==
    (RetrDone /\ rtVariant = "node") =>
        /\ rtConf[2] > 0 /\ 0 <= rtConf[1] /\ rtConf[1] <= rtConf[2]
        /\ rtUnits # <<>> =>
              LET n == Len(rtUnits)
                  top == CHOOSE m \in {rtUnits[i].s : i \in 1..n} :
                            \A i \in 1..n : m >= rtUnits[i].s
              IN  /\ rtConf[1] * (n * top) = sumScores(rtUnits) * rtConf[2]
                  /\ (\A i \in 1..n : rtUnits[i].s = top) => rtConf[1] = rtConf[2]

\* several units with different scores were selected
C16_Witness ==
    /\ RetrDone /\ rtVariant = "node" /\ Len(rtUnits) >= 3
    /\ rtUnits[1].s > rtUnits[Len(rtUnits)].s
    /\ rtConf[1] < rtConf[2]

(***************************************************************************)
(* Store updates.  An ingest-pdf request fetches and chunks a PDF, loads    *)
(* the store, replaces the chunks of its docId and saves the store; a      *)
(* delete-doc request loads the store, removes the chunks of its docId and *)
(* saves it.  The requests run concurrently; each await is a step.         *)
(***************************************************************************)
MaxChunks == 2

D_a == <<"a">>
D_ab == <<"a","b">>
D_a_b == <<"a",":",":","b">>

\* body.docId of the requests; the empty one is refused
DocIds == {<<>>, D_a, D_ab, D_a_b}

IngestRuns == {1, 2, 3}

\* the chunk records of one request: items of the handler; run stands for
\* the text and addedAt of that ingestion
items(docId, n, run) ==
    [i \in 1..n |-> [id |-> docId \o <<":", ":">> \o itoa(i), docId |-> docId, page |-> i,
                     run |-> run]]

\* a handler that keeps the chunks already stored
keepPrior(docs, docId) == docs

\* (store.docs || []).filter(d => !String(d.id || "").startsWith(prefix))
dropPrior(docs, docId) ==
    SelectSeq(docs, LAMBDA d : ~startsWith(d.id, docId \o <<":", ":">>))

IngestInit ==
    /\ ScoreIdle
    /\ RetrIdle
    /\ ReqIdle
    /\ PolishIdle
    /\ SkillIdle
    /\ igStore = <<>>
    /\ igRuns \in [IngestRuns ->
                    {[kind |-> "ingest", docId |-> d, n |-> k, pc |-> "new", read |-> "",
                      loaded |-> <<>>] : d \in DocIds, k \in 1..MaxChunks}
                    \cup {[kind |-> "delete", docId |-> d, n |-> 0, pc |-> "new", read |-> "",
                           loaded |-> <<>>] : d \in DocIds}]

\* if (!url || !docId) in ingest-pdf, if (!docId) in delete-doc: 400
Refuse(r) ==
    /\ igRuns[r].pc = "new" /\ igRuns[r].docId = <<>>
    /\ igRuns' = [igRuns EXCEPT ![r].pc = "refused"]
    /\ UNCHANGED igStore
    /\ UNCHANGED scoreVars
    /\ UNCHANGED retrVars
    /\ UNCHANGED reqVars
    /\ UNCHANGED polishVars
    /\ UNCHANGED skillVars

\* in ingest-pdf the PDF is fetched, parsed and chunked first; then await
\* loadStore(), which yields { docs: [] } when the blob cannot be read as
\* JSON (in ingest-pdf also when its fetch fails)
LoadStore(r, ok) ==
    /\ igRuns[r].pc = "new" /\ igRuns[r].docId # <<>>
    /\ igRuns' = [igRuns EXCEPT ![r].pc = "loaded",
                                ![r].read = IF ok THEN "ok" ELSE "failed",
                                ![r].loaded = IF ok THEN igStore ELSE <<>>]
    /\ UNCHANGED igStore
    /\ UNCHANGED scoreVars
    /\ UNCHANGED retrVars
    /\ UNCHANGED reqVars
    /\ UNCHANGED polishVars
    /\ UNCHANGED skillVars

\* filtered.concat(items) is saved over docs/docs.json
SaveStore(r) ==
    /\ igRuns[r].pc = "loaded" /\ igRuns[r].kind = "ingest"
    /\ igStore' = dropPrior(igRuns[r].loaded, igRuns[r].docId)
                     \o items(igRuns[r].docId, igRuns[r].n, r)
    /\ igRuns' = [igRuns EXCEPT ![r].pc = "saved"]
    /\ UNCHANGED scoreVars
    /\ UNCHANGED retrVars
    /\ UNCHANGED reqVars
    /\ UNCHANGED polishVars
    /\ UNCHANGED skillVars

\* delete-doc: (store.docs || []).filter(d => d.docId !== docId) is saved
\* over docs/docs.json
SaveWithout(r) ==
    /\ igRuns[r].pc = "loaded" /\ igRuns[r].kind = "delete"
    /\ igStore' = SelectSeq(igRuns[r].loaded, LAMBDA d : d.docId # igRuns[r].docId)
    /\ igRuns' = [igRuns EXCEPT ![r].pc = "saved"]
    /\ UNCHANGED scoreVars
    /\ UNCHANGED retrVars
    /\ UNCHANGED reqVars
    /\ UNCHANGED polishVars
    /\ UNCHANGED skillVars

IngestNext ==
    \E r \in IngestRuns :
        \/ Refuse(r)
        \/ LoadStore(r, TRUE)
        \/ LoadStore(r, FALSE)
        \/ SaveStore(r)
        \/ SaveWithout(r)

SpecIngest == IngestInit /\ [][IngestNext]_vars

\* the stored chunks of document docId, in store order
chunksOf(docs, docId) == SelectSeq(docs, LAMBDA d : d.docId = docId)

\* C17: re-running ingestion for a document D fully replaces D's prior
\* chunks: when the run has saved, the store holds for D exactly the chunks
\* of this run, ids D::1 .. D::n, and none of an earlier ingestion of D.
C17_ReingestReplaces ==
    [][\A r \in IngestRuns :
          (igRuns[r].kind = "ingest" /\ igRuns[r].pc = "loaded" /\ igRuns'[r].pc = "saved") =>
              /\ chunksOf(igStore', igRuns[r].docId)
                    = items(igRuns[r].docId, igRuns[r].n, r)
              /\ \A i \in 1..Len(igStore') :
                    startsWith(igStore'[i].id, igRuns[r].docId \o <<":", ":">>)
                        => igStore'[i].run = r]_vars

\* a document stored with two chunks was ingested again with one chunk,
\* and the store holds that one chunk for it
C17_Witness ==
    \E r1, r2 \in IngestRuns :
        /\ r1 # r2 /\ igRuns[r1].docId = igRuns[r2].docId
        /\ igRuns[r1].pc = "saved" /\ igRuns[r2].pc = "saved"
        /\ igRuns[r1].n = 2 /\ igRuns[r2].n = 1
        /\ chunksOf(igRuns[r2].loaded, igRuns[r2].docId)
              = items(igRuns[r1].docId, 2, r1)
        /\ chunksOf(igStore, igRuns[r2].docId) = items(igRuns[r2].docId, 1, r2)

(***************************************************************************)
(* Skills (skills.js): matchSkill walks the registry and returns the first *)
(* skill whose pattern accepts the question.                               *)
(***************************************************************************)
\* SKILLS: the registry, in array order.  Each pattern \b(a|b|...)\b is the set
\* of the literals it accepts (optional parts expanded); the pattern of
\* "table", \b(make|show|format).*(table|tabular)\b, has heads and tails
SKILLS == <<
  [ id    |-> "summarize",
    alts  |-> {<<"s","u","m","m","a","r","i","z","e">>,
               <<"s","u","m","m","a","r","i","s","e">>,
               <<"b","r","i","e","f">>,
               <<"s","h","o","r","t"," ","v","e","r","s","i","o","n">>,
               <<"t","l",";","d","r">>},
    tails |-> {} ],
  [ id    |-> "eli5",
    alts  |-> {<<"e","l","i","5">>,
               <<"e","x","p","l","a","i","n"," ","l","i","k","e"," ","i","m"," ","5">>,
               <<"e","x","p","l","a","i","n"," ","l","i","k","e"," ","i","'","m"," ","5">>,
               <<"s","i","m","p","l","e"," ","t","e","r","m","s">>,
               <<"e","x","p","l","a","i","n"," ","i","t"," ","s","i","m","p","l","y">>,
               <<"e","x","p","l","a","i","n"," ","s","i","m","p","l","y">>},
    tails |-> {} ],
  [ id    |-> "checklist",
    alts  |-> {<<"c","h","e","c","k","l","i","s","t">>,
               <<"c","h","e","c","k"," ","l","i","s","t">>,
               <<"s","t","e","p","s">>,
               <<"t","o","d","o">>,
               <<"a","c","t","i","o","n"," ","i","t","e","m","s">>},
    tails |-> {} ],
  [ id    |-> "calibration",
    alts  |-> {<<"c","a","l","i","b","r","a","t","i","o","n">>,
               <<"c","a","l","i","b","r","a","t","e">>,
               <<"e","x","t","r","i","n","s","i","c">>,
               <<"i","n","t","r","i","n","s","i","c">>,
               <<"t","i","m","e","s","y","n","c">>,
               <<"t","i","m","e"," ","s","y","n","c">>,
               <<"s","y","n","c","h","r","o","n","i","z","a","t","i","o","n">>},
    tails |-> {} ],
  [ id    |-> "risk-safety",
    alts  |-> {<<"r","i","s","k">>,
               <<"s","a","f","e","t","y">>,
               <<"h","a","z","a","r","d">>,
               <<"a","l","e","r","t">>,
               <<"w","a","r","n","i","n","g">>,
               <<"t","h","r","e","s","h","o","l","d">>},
    tails |-> {} ],
  [ id    |-> "pros-cons",
    alts  |-> {<<"p","r","o","s"," ","a","n","d"," ","c","o","n","s">>,
               <<"p","r","o","s","/","c","o","n","s">>,
               <<"a","d","v","a","n","t","a","g","e","s">>,
               <<"d","i","s","a","d","v","a","n","t","a","g","e","s">>},
    tails |-> {} ],
  [ id    |-> "compare",
    alts  |-> {<<"c","o","m","p","a","r","e">>,
               <<"v","s",".">>,
               <<"v","e","r","s","u","s">>,
               <<"d","i","f","f","e","r","e","n","c","e">>,
               <<"w","h","i","c","h"," ","i","s"," ","b","e","t","t","e","r">>},
    tails |-> {} ],
  [ id    |-> "table",
    alts  |-> {<<"m","a","k","e">>,
               <<"s","h","o","w">>,
               <<"f","o","r","m","a","t">>},
    tails |-> {<<"t","a","b","l","e">>,
               <<"t","a","b","u","l","a","r">>} ],
  [ id    |-> "json-extract",
    alts  |-> {<<"j","s","o","n">>,
               <<"s","t","r","u","c","t","u","r","e","d">>,
               <<"s","c","h","e","m","a">>,
               <<"k","e","y","v","a","l","u","e">>,
               <<"k","e","y",":","v","a","l","u","e">>,
               <<"k","e","y"," ","v","a","l","u","e">>},
    tails |-> {} ],
  [ id    |-> "glossary",
    alts  |-> {<<"g","l","o","s","s","a","r","y">>,
               <<"d","e","f","i","n","e">>,
               <<"d","e","f","i","n","i","t","i","o","n">>,
               <<"d","e","f","i","n","i","t","i","o","n","s">>},
    tails |-> {} ],
  [ id    |-> "metrics",
    alts  |-> {<<"m","e","t","r","i","c">>,
               <<"k","p","i">>,
               <<"e","v","a","l","u","a","t","e">>,
               <<"b","e","n","c","h","m","a","r","k">>},
    tails |-> {} ],
  [ id    |-> "roadmap",
    alts  |-> {<<"r","o","a","d","m","a","p">>,
               <<"r","o","a","d"," ","m","a","p">>,
               <<"t","i","m","e","l","i","n","e">>,
               <<"m","i","l","e","s","t","o","n","e">>},
    tails |-> {} ],
  [ id    |-> "faq",
    alts  |-> {<<"f","a","q">>,
               <<"q","u","e","s","t","i","o","n","s"," ","a","n","d"," ","a","n","s","w","e","r","s">>,
               <<"c","o","m","m","o","n"," ","q","u","e","s","t","i","o","n">>,
               <<"c","o","m","m","o","n"," ","q","u","e","s","t","i","o","n","s">>},
    tails |-> {} ],
  [ id    |-> "quiz",
    alts  |-> {<<"q","u","i","z">>,
               <<"t","e","s","t"," ","m","e">>,
               <<"p","r","a","c","t","i","c","e"," ","q","u","e","s","t","i","o","n">>,
               <<"p","r","a","c","t","i","c","e"," ","q","u","e","s","t","i","o","n","s">>},
    tails |-> {} ],
  [ id    |-> "flashcards",
    alts  |-> {<<"f","l","a","s","h","c","a","r","d">>,
               <<"f","l","a","s","h","c","a","r","d","s">>,
               <<"f","l","a","s","h"," ","c","a","r","d">>,
               <<"f","l","a","s","h"," ","c","a","r","d","s">>,
               <<"s","t","u","d","y"," ","c","a","r","d">>,
               <<"s","t","u","d","y"," ","c","a","r","d","s">>},
    tails |-> {} ],
  [ id    |-> "translate",
    alts  |-> {<<"t","r","a","n","s","l","a","t","e">>,
               <<"i","n"," ","s","i","n","h","a","l","a">>,
               <<"i","n"," ","t","a","m","i","l">>,
               <<"i","n"," ","e","n","g","l","i","s","h">>,
               <<"i","n"," ","s","p","a","n","i","s","h">>,
               <<"i","n"," ","g","e","r","m","a","n">>,
               <<"i","n"," ","f","r","e","n","c","h">>},
    tails |-> {} ],
  [ id    |-> "rewrite-tone",
    alts  |-> {<<"r","e","w","r","i","t","e">>,
               <<"r","e","p","h","r","a","s","e">>,
               <<"t","o","n","e">>,
               <<"f","r","i","e","n","d","l","i","e","r">>,
               <<"m","o","r","e"," ","f","o","r","m","a","l">>,
               <<"s","h","o","r","t","e","r">>,
               <<"l","o","n","g","e","r">>},
    tails |-> {} ],
  [ id    |-> "owner",
    alts  |-> {<<"o","w","n","e","r">>,
               <<"w","h","o"," ","m","a","d","e">>,
               <<"w","h","o"," ","b","u","i","l","t">>,
               <<"w","h","o"," ","i","s"," ","s","a","c","h","i","n","t","h","a">>,
               <<"w","h","o"," ","i","s"," ","t","h","e"," ","c","r","e","a","t","o","r">>},
    tails |-> {} ],
  [ id    |-> "dataset-license",
    alts  |-> {<<"l","i","c","e","n","s","e">>,
               <<"u","s","a","g","e"," ","t","e","r","m","s">>,
               <<"a","l","l","o","w","e","d">>,
               <<"p","e","r","m","i","s","s","i","o","n">>},
    tails |-> {} ],
  [ id    |-> "annotation-schema",
    alts  |-> {<<"a","n","n","o","t","a","t","i","o","n">>,
               <<"l","a","b","e","l","s">>,
               <<"c","l","a","s","s","e","s">>,
               <<"t","a","x","o","n","o","m","y">>},
    tails |-> {} ],
  [ id    |-> "image-brief",
    alts  |-> {<<"i","m","a","g","e">>,
               <<"v","i","s","u","a","l">>,
               <<"i","l","l","u","s","t","r","a","t","i","o","n">>,
               <<"d","i","a","g","r","a","m">>},
    tails |-> {} ]
>>

SW_summarize == <<"s","u","m","m","a","r","i","z","e">>
SW_safety == <<"s","a","f","e","t","y">>
SW_compare == <<"c","o","m","p","a","r","e">>
SW_show == <<"s","h","o","w">>
SW_table == <<"t","a","b","l","e">>
SW_license == <<"l","i","c","e","n","s","e">>
SW_lidar == <<"l","i","d","a","r">>
SW_risks == <<"r","i","s","k","s">>
SW_Steps == <<"S","t","e","p","s">>
SW_vsradar == <<"v","s",".","r","a","d","a","r">>

SkillWords == {SW_summarize, SW_safety, SW_compare, SW_show, SW_table, SW_license, SW_lidar, SW_risks, SW_Steps, SW_vsradar}

MaxSkillWords == 2

RECURSIVE SkillQuestions(_)
SkillQuestions(n) ==
    IF n = 1 THEN SkillWords
    ELSE LET shorter == SkillQuestions(n - 1)
         IN  shorter \cup {q \o <<SP>> \o w : q \in shorter, w \in SkillWords}

\* normalize of skills.js: (s || "").toLowerCase()
skillNormalize(s) == [i \in 1..Len(s) |-> toLowerCase(s[i])]

\* \b between t[i - 1] and t[i]: exactly one side is a word character
boundaryAt(t, i) ==
    (i - 1 >= 1 /\ IsWordChar(t[i - 1])) # (i <= Len(t) /\ IsWordChar(t[i]))

occursAt(t, lit, i) == i + Len(lit) - 1 <= Len(t) /\ SubSeq(t, i, i + Len(lit) - 1) = lit

\* s.match(question): re.test(normalize(q))
skillTest(s, question) ==
    LET t == skillNormalize(question)
    IN  IF s.tails = {}
        THEN \E lit \in s.alts : \E i \in 1..Len(t) :
                /\ occursAt(t, lit, i) /\ boundaryAt(t, i) /\ boundaryAt(t, i + Len(lit))
        ELSE \E h \in s.alts, l \in s.tails : \E i \in 1..Len(t), j \in 1..Len(t) :
                /\ occursAt(t, h, i) /\ boundaryAt(t, i)
                /\ j >= i + Len(h)
                /\ occursAt(t, l, j) /\ boundaryAt(t, j + Len(l))
                /\ \A m \in (i + Len(h))..(j - 1) : t[m] # NL

\* a loop that walks the registry backwards
reverseOrder == [i \in 1..Len(SKILLS) |-> Len(SKILLS) + 1 - i]

\* for (const s of SKILLS): array order
registryOrder == Indices(Len(SKILLS))

SkillInit ==
    /\ ScoreIdle
    /\ RetrIdle
    /\ ReqIdle
    /\ PolishIdle
    /\ IngestIdle
    /\ skQuestion \in SkillQuestions(MaxSkillWords)
    /\ skIndex = 1
    /\ skResult = 0
    /\ skPc = "loop"

\* one iteration: if (s.match(question)) return s
TrySkill ==
    /\ skPc = "loop" /\ skIndex <= Len(SKILLS)
    /\ IF skillTest(SKILLS[registryOrder[skIndex]], skQuestion)
       THEN skResult' = registryOrder[skIndex] /\ skPc' = "done" /\ UNCHANGED skIndex
       ELSE skIndex' = skIndex + 1 /\ UNCHANGED <<skResult, skPc>>
    /\ UNCHANGED skQuestion
    /\ UNCHANGED scoreVars
    /\ UNCHANGED retrVars
    /\ UNCHANGED reqVars
    /\ UNCHANGED polishVars
    /\ UNCHANGED ingestVars

\* return null, after the loop
ReturnNull ==
    /\ skPc = "loop" /\ skIndex > Len(SKILLS)
    /\ skResult' = 0 /\ skPc' = "done"
    /\ UNCHANGED <<skQuestion, skIndex>>
    /\ UNCHANGED scoreVars
    /\ UNCHANGED retrVars
    /\ UNCHANGED reqVars
    /\ UNCHANGED polishVars
    /\ UNCHANGED ingestVars

SkillNext == TrySkill \/ ReturnNull

SpecSkill == SkillInit /\ [][SkillNext]_vars

\* the registry indices of the skills whose pattern accepts the question
SkillHits(question) == {i \in 1..Len(SKILLS) : skillTest(SKILLS[i], question)}

\* C18: skills are evaluated in the fixed registry order and at most one
\* applies: the first skill that matches is returned, whatever matches
\* after it, and none is returned when none matches.
C18_FirstSkillWins ==
    /\ skPc = "loop" =>
          \A j \in 1..(skIndex - 1) : ~skillTest(SKILLS[j], skQuestion)
    /\ skPc = "done" =>
          LET hits == SkillHits(skQuestion)
          IN  IF hits = {} THEN skResult = 0
              ELSE skResult = CHOOSE i \in hits : \A j \in hits : i <= j

\* two skills match the question and the earlier one was returned
C18_Witness ==
    /\ skPc = "done" /\ skQuestion = SW_safety \o <<SP>> \o SW_compare
    /\ SkillHits(skQuestion) = {5, 7}
    /\ SKILLS[skResult].id = "risk-safety"

(***************************************************************************)
(* The end-to-end scenario and the timers of the cascade, on the request   *)
(* runs of Spec.                                                           *)
(***************************************************************************)
W_LiDAR == <<"L","i","D","A","R">>
W_radar == <<"r","a","d","a","r">>

\* the unit is of the AAVSS domain and its body names LiDAR and radar
SensorsUnit(v, store, u) ==
    /\ u.type = "kb" /\ KBdocs(v)[u.ix].topic = "aavss"
    /\ includes(UnitText(v, store, u), W_LiDAR) /\ includes(UnitText(v, store, u), W_radar)

\* the question of the scenario was answered by the first provider called
SensorsAnswered ==
    /\ rqVariant \in {"node", "edge"} /\ rqQuestion = Q_whatSensors /\ rqHint = ""
    /\ rqPc = "done" /\ Len(rqAttempts) = 1 /\ Outcome(1) = "text"

\* C19: for the question "What sensors does it use?" and a unit of domain A
\* whose body contains "LiDAR" and "radar", the topic is domain A, that unit
\* is ranked first, the one provider succeeds, and the provenance list of
\* the answer is exactly that unit's id.
C19_SensorsScenario ==
    SensorsAnswered =>
        /\ rqTopic = "aavss"
        /\ rqUnits # <<>> /\ SensorsUnit(rqVariant, rqStore, rqUnits[1])
        /\ rqResponse.status = 200 /\ rqResponse.provider = rqAttempts[1].name
        /\ rqResponse.sources = <<provenanceId(rqVariant, rqStore, rqUnits[1])>>

\* the scenario as the handlers run it: no keyword of the question is in a
\* classifier list, the unit is ranked first all the same, and its id heads a
\* provenance list that names every unit retrieved
C19_SensorsScenarioAsRun ==
    SensorsAnswered =>
        /\ rqTopic = "all"
        /\ Len(rqUnits) > 1 /\ SensorsUnit(rqVariant, rqStore, rqUnits[1])
        /\ rqResponse.status = 200 /\ rqResponse.provider = rqAttempts[1].name
        /\ Len(rqResponse.sources) = Len(rqUnits)
        /\ \A i \in 1..Len(rqUnits) :
              rqResponse.sources[i] = provenanceId(rqVariant, rqStore, rqUnits[i])

\* the edge function answered the question of the scenario
C19_Witness ==
    /\ SensorsAnswered /\ rqVariant = "edge"
    /\ rqResponse.provider = "groq" /\ rqResponse.answer # <<>>

\* C20: whenever a provider attempt ends by error, timeout or empty text,
\* its timer is cleared before the next provider is started, so a timer is
\* armed for the pending attempt only and none is armed when the response
\* is sent.
C20_TimersCleared ==
    /\ \A i \in rqTimers : Outcome(i) = "pending"
    /\ rqPc = "done" => rqTimers = {}

\* the same for the handlers that clear the timer in the catch clause too
C20_TimersClearedOnEveryPath ==
    rqVariant \in {"chat", "ai"} =>
        /\ \A i \in rqTimers : Outcome(i) = "pending"
        /\ rqPc = "done" => rqTimers = {}

\* the context proxy answered after a provider threw, with no timer armed
C20_ClearedAfterError ==
    /\ rqVariant = "ai" /\ rqPc = "done" /\ Len(rqAttempts) = 2
    /\ Outcome(1) = "error" /\ rqTimers = {}

\* C21: when no credentials are configured the request falls back to the
\* deterministic answer built from the retrieved bundle, prefixed with an
\* apology sentence, exactly as when every provider fails.
C21_NoCredentialsFallsBack ==
    (rqVariant \in {"node", "edge", "chat"} /\ ReachedCascade /\ rqKeys = {}) =>
        /\ rqResponse.status = 200 /\ rqResponse.provider = "kb-fallback"
        /\ rqResponse.answer # <<>>

\* C21 (as the code has it): in the Node handler and the edge function a
\* request without credentials is answered like one whose providers all
\* threw: status 200, provider kb-fallback, the apology followed by the
\* stitched bundle, and the ids of the bundle; the chat handler retrieves
\* nothing and answers 502 without an answer.
C21_FallbackPerHandler ==
    /\ (rqVariant \in {"node", "edge"} /\ ReachedCascade /\ (rqKeys = {} \/ AllThrew)) =>
          /\ rqResponse = Response(200, "answer", "kb-fallback",
                                   gentlePolish(fallbackAnswer(rqVariant, rqIds)), rqIds, <<>>)
          /\ startsWith(rqResponse.answer,
                        trim(IF rqVariant = "node" THEN S_apologyNode ELSE S_apologyEdge))
    /\ (rqVariant = "chat" /\ ReachedCascade /\ rqKeys = {}) =>
          rqResponse.status = 502 /\ rqResponse.answer = <<>>

\* the Node handler had no provider to call and sent the stitched bundle
C21_Witness ==
    /\ rqVariant = "node" /\ rqKeys = {} /\ rqPc = "done"
    /\ rqProviders = <<>> /\ rqAttempts = <<>> /\ rqIds # <<>>
    /\ rqResponse.provider = "kb-fallback" /\ rqResponse.status = 200


(***************************************************************************)
(* The overview fallback of retrieval, the ranking of the scored units and *)
(* the confidence bound.                                                   *)
(***************************************************************************)
\* the query tokens each handler scores with
queryTokens(v, question) ==
    LET toks == IF v = "node" THEN TOK(question) ELSE split(normalize(question))
    IN  {toks[i] : i \in 1..Len(toks)} \ {<<>>}

\* the KB docs the topic filter of each topK lets through
admittedKB(v, topic) ==
    IF v = "node" THEN {kbPoolNode(topic)[j] : j \in 1..Len(kbPoolNode(topic))}
    ELSE {i \in 1..Len(KBdocs(v)) :
            topic \in {"aavss", "sldataset"} =>
                KBdocs(v)[i].topic = topic \/ KBdocs(v)[i].topic = "all"}

\* no admitted unit scores above 0: no query token occurs in an admitted KB
\* doc or in a stored chunk (and, in the edge function, no project bonus
\* applies either)
NothingScored(v, question, topic, store) ==
    /\ \A i \in admittedKB(v, topic) :
          IF v = "edge"
          THEN scoreDocNormalized(split(normalize(question)), KBscanned_edge[i]) = 0
          ELSE \A tok \in queryTokens(v, question) :
                  ~includes(IF v = "node" THEN KBscanned_node[i] ELSE KBscanned_node0[i], tok)
    /\ v # "edge" =>
          \A i \in 1..Len(store) : \A tok \in queryTokens(v, question) :
              ~includes(normalize(store[i].title
                                  \o (IF v = "node" THEN <<NL>> ELSE <<SP>>)
                                  \o store[i].text), tok)

\* the ids of the returned units, as a set
returnedIds == {UnitId(rtVariant, rtStore, rtUnits[i]) : i \in 1..Len(rtUnits)}

overviewIdOf(topic) ==
    IF topic = "aavss" THEN ID_aavssOverview
    ELSE IF topic = "sldataset" THEN ID_sldOverview
    ELSE ID_aboutOwner

unitScore(v, question, type, ix, store) ==
    IF type = "kb"
    THEN IF v = "node" THEN sumTokens(KBscanned_node[ix], TOK(question), 1)
         ELSE IF v = "node0"
              THEN sumTokens(KBscanned_node0[ix], split(normalize(question)), 1)
              ELSE scoreDocNormalized(split(normalize(question)), KBscanned_edge[ix])
    ELSE IF v = "node"
         THEN scoreText(TOK(question), store[ix].title \o <<NL>> \o store[ix].text)
         ELSE scoreText(split(normalize(question)),
                        store[ix].title \o <<SP>> \o store[ix].text)

\* the admitted units that score above 0, as <<type, index>> pairs
positiveUnits(v, question, topic, store) ==
    {<<"kb", i>> : i \in {j \in admittedKB(v, topic) :
                            unitScore(v, question, "kb", j, store) > 0}}
    \cup (IF v = "edge" THEN {}
          ELSE {<<"pdf", i>> : i \in {j \in 1..Len(store) :
                                        unitScore(v, question, "pdf", j, store) > 0}})

\* insertion order of the pool: KB docs in KB order, then chunks in store order
insertedBefore(a, b) ==
    \/ a[1] = "kb" /\ b[1] = "pdf"
    \/ a[1] = b[1] /\ a[2] < b[2]

\* C23: when at least one admitted unit scores above 0, retrieval returns the
\* k highest-scoring admitted units (all of them if fewer than k) in
\* non-increasing score order, none with score 0 or less, and units with
\* equal scores in their insertion order.
C23_TopKRanked ==
    LET pos == positiveUnits(rtVariant, rtQuestion, rtTopic, rtStore)
        n == Len(rtUnits)
        key(i) == <<rtUnits[i].type, rtUnits[i].ix>>
        got == {key(i) : i \in 1..n}
        sc(p) == unitScore(rtVariant, rtQuestion, p[1], p[2], rtStore)
    IN  (RetrDone /\ pos # {}) =>
            /\ n = IF Cardinality(pos) < K THEN Cardinality(pos) ELSE K
            /\ got \subseteq pos
            /\ Cardinality(got) = n
            /\ \A i \in 1..n : rtUnits[i].s = sc(key(i)) /\ rtUnits[i].s > 0
            /\ \A i \in 1..n : \A j \in 1..n : i < j =>
                  /\ rtUnits[i].s >= rtUnits[j].s
                  /\ rtUnits[i].s = rtUnits[j].s => insertedBefore(key(i), key(j))
            /\ \A p \in pos \ got : \A i \in 1..n :
                  /\ sc(p) <= rtUnits[i].s
                  /\ sc(p) = rtUnits[i].s => insertedBefore(key(i), p)

\* the Node handler kept 8 of more than 8 scoring units, KB docs and chunks
\* among them, two of them with equal scores
C23_Witness ==
    /\ RetrDone /\ rtVariant = "node" /\ Len(rtUnits) = K
    /\ Cardinality(positiveUnits("node", rtQuestion, rtTopic, rtStore)) > K
    /\ \E i \in 1..K : rtUnits[i].type = "pdf"
    /\ \E i \in 1..K : rtUnits[i].type = "kb"
    /\ \E i \in 1..(K - 1) : rtUnits[i].s = rtUnits[i + 1].s
    /\ rtUnits[1].s > rtUnits[K].s


(***************************************************************************)
(* The provider order the cascade iterates                                 *)
(***************************************************************************)
\* AI_PROVIDER_ORDER as configured, the default order when it is unset
configuredOrder(raw) == IF raw = <<>> THEN <<"groq", "deepinfra", "gemini">> ELSE raw

\* the attempts made so far were made on the first providers of seq, in order
AttemptsFollow(seq) ==
    /\ Len(rqAttempts) <= Len(seq)
    /\ \A i \in 1..Len(rqAttempts) : rqAttempts[i].name = seq[i]

\* C24: the providers the cascade iterates are exactly the entries of the
\* configured order (AI_PROVIDER_ORDER, default groq, deepinfra, gemini)
\* whose credentials are present, in the configured relative order, and a
\* provider without credentials is never invoked.
C24_IteratesConfiguredOrder ==
    (rqVariant \in {"node", "chat"} /\ ReachedCascade) =>
        /\ rqProviders = SelectSeq(configuredOrder(rqOrder), LAMBDA p : p \in rqKeys)
        /\ AttemptsFollow(rqProviders)
        /\ \A i \in 1..Len(rqAttempts) : rqAttempts[i].name \in rqKeys

\* what does hold: the chat handler iterates the keyed entries of the
\* configured order, the Node handler the keyed providers in the fixed order
\* groq, deepinfra, gemini whatever AI_PROVIDER_ORDER says, and neither
\* invokes a provider without credentials.
C24_KeyedProvidersOnly ==
    (rqVariant \in {"node", "chat"} /\ ReachedCascade) =>
        /\ rqProviders = SelectSeq(IF rqVariant = "chat" THEN configuredOrder(rqOrder)
                                   ELSE <<"groq", "deepinfra", "gemini">>,
                                   LAMBDA p : p \in rqKeys)
        /\ AttemptsFollow(rqProviders)
        /\ \A i \in 1..Len(rqAttempts) : rqAttempts[i].name \in rqKeys

\* the chat handler called gemini, then groq, as configured
C24_ConfiguredOrderFollowed ==
    /\ rqVariant = "chat" /\ rqOrder = <<"gemini", "groq">> /\ rqKeys = ProviderNames
    /\ Len(rqAttempts) = 2
    /\ rqAttempts[1].name = "gemini" /\ rqAttempts[2].name = "groq"


(***************************************************************************)
(* KB docs and stored chunks under the scorers of one retrieval            *)
(***************************************************************************)
\* C25: static KB units and ingested PDF chunks are scored by one shared
\* lexical scorer over title + body: for the same query, a PDF chunk gets the
\* score a KB unit with identical title and body gets.
C25_SharedScorer ==
    scPc = "scoreChunk" => scResult = scoreDoc(scTokens, scText, scBody)

\* what does hold: the chunk's score is the KB unit's score less one point
\* for each project the text mentions, so the two agree exactly on texts
\* that mention neither project.
C25_ScorersDifferByBonus ==
    scPc = "scoreChunk" =>
        LET t == normalize(scText \o <<SP>> \o scBody)
            bonus == (IF includes(t, W_aavss) \/ includes(t, W_avs) THEN 1 ELSE 0)
                       + (IF includes(t, W_dataset) \/ includes(t, W_srilanka) THEN 1 ELSE 0)
        IN  scResult + bonus = scoreDoc(scTokens, scText, scBody)

\* a chunk titled "AAVSS Lane!" scored 3 for the query token lane, where a
\* KB unit with that title scores 4
C25_BonusReached ==
    /\ scPc = "scoreChunk" /\ scText = T_aavssLane /\ scBody = <<>>
    /\ scTokens = <<T_lane>>
    /\ scResult = 3
    /\ scoreDoc(scTokens, scText, scBody) = 4


(***************************************************************************)
(* How often a provider is called within one request                       *)
(***************************************************************************)
\* C26: within one request each provider is invoked at most once: a failure
\* moves on to the next provider and the same provider is never called a
\* second time, even when the configured order names it more than once.
C26_EachProviderAtMostOnce ==
    \A i \in 1..Len(rqAttempts) : \A j \in 1..Len(rqAttempts) :
        i # j => rqAttempts[i].name # rqAttempts[j].name

\* what does hold: the n-th call of a request is made on the n-th entry of
\* the provider list, so no entry is retried, and the handlers with a fixed
\* list call no provider twice; in the chat handler a provider is called as
\* often as the configured order names it.
C26_OneCallPerEntry ==
    /\ AttemptsFollow(rqProviders)
    /\ rqVariant # "chat" => C26_EachProviderAtMostOnce

\* groq, named twice in AI_PROVIDER_ORDER, failed and was called again
C26_CalledTwice ==
    /\ rqVariant = "chat" /\ rqOrder = <<"groq", "openai", "groq">>
    /\ Len(rqAttempts) = 2
    /\ rqAttempts[1].name = "groq" /\ rqAttempts[1].outcome = "error"
    /\ rqAttempts[2].name = "groq"


(***************************************************************************)
(* Ingestion and the other documents of the store                          *)
(***************************************************************************)
\* the stored chunks that belong to a document other than docId
chunksOfOthers(docs, docId) == SelectSeq(docs, LAMBDA d : d.docId # docId)

\* C27: ingesting document D changes nothing outside D: every stored chunk
\* of a different document, a document whose identifier merely starts with
\* D's identifier included, is in the store afterwards, unchanged and in the
\* same relative order.  (Stated for a run that loaded the store as it is
\* when the run saves.)
C27_OtherDocumentsKept ==
    [][\A r \in IngestRuns :
          (igRuns[r].kind = "ingest" /\ igRuns[r].pc = "loaded" /\ igRuns'[r].pc = "saved"
             /\ igRuns[r].loaded = igStore) =>
              chunksOfOthers(igStore', igRuns[r].docId)
                 = chunksOfOthers(igStore, igRuns[r].docId)]_vars

\* what does hold for such a run: the chunks whose id does not start with
\* D:: are kept, unchanged and in order, ahead of the new chunks of D.
C27_UnprefixedKept ==
    [][\A r \in IngestRuns :
          (igRuns[r].kind = "ingest" /\ igRuns[r].pc = "loaded" /\ igRuns'[r].pc = "saved"
             /\ igRuns[r].loaded = igStore) =>
              igStore' = SelectSeq(igStore, LAMBDA d :
                            ~startsWith(d.id, igRuns[r].docId \o <<":", ":">>))
                         \o items(igRuns[r].docId, igRuns[r].n, r)]_vars

\* document a was ingested into a store that held document a::b, and the
\* store now holds the chunks of a alone
C27_PrefixedDocumentDropped ==
    \E r \in IngestRuns :
        /\ igRuns[r].kind = "ingest" /\ igRuns[r].pc = "saved" /\ igRuns[r].docId = D_a
        /\ chunksOf(igRuns[r].loaded, D_a_b) # <<>>
        /\ chunksOf(igRuns[r].loaded, D_a) = <<>>
        /\ igStore = items(D_a, igRuns[r].n, r)


(***************************************************************************)
(* Concurrent store updates                                                *)
(***************************************************************************)
\* every request has been answered and every load returned the store
AllUpdatesDone ==
    /\ \A r \in IngestRuns : igRuns[r].pc \in {"saved", "refused"}
    /\ \A r \in IngestRuns : igRuns[r].read # "failed"

\* no other completed update is about the chunks of ingestion r: no other
\* ingestion whose prefix the ids of r's chunks start with, no deletion of
\* r's document
OnlyUpdateOf(r) ==
    \A r2 \in IngestRuns \ {r} :
        igRuns[r2].pc = "saved" =>
            IF igRuns[r2].kind = "ingest"
            THEN ~startsWith(igRuns[r].docId \o <<":", ":">>, igRuns[r2].docId \o <<":", ":">>)
            ELSE igRuns[r2].docId # igRuns[r].docId

\* C28: concurrent store updates are serializable: when ingestions of
\* different documents overlap in time, the final store contains the chunks
\* of each of them, and no completed update is lost: a chunk that a
\* completed deletion removed is not in the final store.
C28_NoUpdateLost ==
    AllUpdatesDone =>
        /\ \A r \in IngestRuns :
              (igRuns[r].kind = "ingest" /\ igRuns[r].pc = "saved" /\ OnlyUpdateOf(r)) =>
                  chunksOf(igStore, igRuns[r].docId) = items(igRuns[r].docId, igRuns[r].n, r)
        /\ \A r \in IngestRuns :
              (igRuns[r].kind = "delete" /\ igRuns[r].pc = "saved") =>
                  \A i \in 1..Len(igRuns[r].loaded) :
                      igRuns[r].loaded[i].docId = igRuns[r].docId =>
                          \A j \in 1..Len(igStore) : igStore[j] # igRuns[r].loaded[i]

\* two ingestions of different documents both loaded the empty store and
\* both saved; the store holds the chunks of one of them only
C28_LostIngestion ==
    \E r1, r2 \in IngestRuns :
        /\ AllUpdatesDone
        /\ igRuns[r1].kind = "ingest" /\ igRuns[r2].kind = "ingest"
        /\ igRuns[r1].docId = D_a /\ igRuns[r2].docId = D_ab
        /\ igRuns[r1].pc = "saved" /\ igRuns[r2].pc = "saved"
        /\ igRuns[r1].read = "ok" /\ igRuns[r2].read = "ok"
        /\ igRuns[r1].loaded = <<>> /\ igRuns[r2].loaded = <<>>
        /\ igStore = items(D_ab, igRuns[r2].n, r2)

\* a deletion removed the chunks of its document and an ingestion of another
\* document, which had loaded the store before, saved them again
C28_DeletionUndone ==
    \E r1, r2, r3 \in IngestRuns :
        /\ AllUpdatesDone
        /\ igRuns[r1].kind = "ingest" /\ igRuns[r1].docId = D_a
        /\ igRuns[r2].kind = "delete" /\ igRuns[r2].docId = D_a
        /\ igRuns[r3].kind = "ingest" /\ igRuns[r3].docId = D_ab
        /\ igRuns[r2].loaded = items(D_a, igRuns[r1].n, r1)
        /\ igRuns[r3].loaded = items(D_a, igRuns[r1].n, r1)
        /\ igStore = items(D_a, igRuns[r1].n, r1) \o items(D_ab, igRuns[r3].n, r3)


(***************************************************************************)
(* Provenance identifiers and their decoding by the kb-fallback answer     *)
(***************************************************************************)
\* the Node handler answered from the bundle
FellBack == rqVariant = "node" /\ rqPc = "done" /\ rqResponse.provider = "kb-fallback"

\* C29: provenance identifiers round-trip: for every identifier buildContext
\* produces, the decoding of the kb-fallback answer recovers the unit's kind,
\* finds the KB document of a kb identifier and recovers the chunk's title of
\* a pdf identifier (chunk ids have the form docId::n).
C29_ProvenanceRoundTrips ==
    FellBack =>
        \A i \in 1..Len(rqIds) :
            LET u == rqUnits[i]
            IN  IF u.type = "kb"
                THEN /\ decodedKind(rqIds[i]) = <<"k","b">>
                     /\ SelectSeq(KB_node, LAMBDA d : d.id = decodedFirst(rqIds[i]))
                           = <<UnitDoc("node", rqStore, u)>>
                ELSE /\ decodedKind(rqIds[i]) = <<"p","d","f">>
                     /\ decodedFirst(rqIds[i]) = UnitTitle("node", rqStore, u)

\* what does hold: the kind is recovered and the KB document is found, and
\* for a pdf identifier the decoding yields the chunk id up to its first
\* colon, that is the docId, where the title was meant.
C29_KindAndKbRecovered ==
    FellBack =>
        \A i \in 1..Len(rqIds) :
            LET u == rqUnits[i]
            IN  IF u.type = "kb"
                THEN /\ decodedKind(rqIds[i]) = <<"k","b">>
                     /\ SelectSeq(KB_node, LAMBDA d : d.id = decodedFirst(rqIds[i]))
                           = <<UnitDoc("node", rqStore, u)>>
                ELSE /\ decodedKind(rqIds[i]) = <<"p","d","f">>
                     /\ decodedFirst(rqIds[i]) = splitOn(UnitId("node", rqStore, u), ":")[1]

\* a chunk was in the bundle and the fallback answer names it by its docId,
\* not by its title
C29_TitleLost ==
    /\ FellBack
    /\ \E i \in 1..Len(rqIds) :
          /\ rqUnits[i].type = "pdf"
          /\ decodedFirst(rqIds[i]) # UnitTitle("node", rqStore, rqUnits[i])
          /\ includes(rqResponse.answer, decodedFirst(rqIds[i]) \o S_fromPdf)
          /\ ~includes(rqResponse.answer, UnitTitle("node", rqStore, rqUnits[i]) \o S_fromPdf)


(***************************************************************************)
(* A lower bound of the confidence                                         *)
(***************************************************************************)
\* C30: for a non-empty bundle of n selected units the confidence is at
\* least 1/n, so with k = 8 and threshold 0.15 the confidence part of the
\* gate can fire only when 7 or 8 units were selected; a bundle made of a
\* single overview-fallback unit has confidence 1 and is never gated on
\* confidence.
C30_ConfidenceAtLeastOneOverN ==
    (RetrDone /\ rtVariant = "node" /\ rtUnits # <<>>) =>
        LET n == Len(rtUnits)
        IN  /\ rtConf[2] > 0
            /\ rtConf[1] * n >= rtConf[2]
            /\ belowThreshold(rtConf) => n \in {7, 8}
            /\ (n = 1 /\ NothingScored("node", rtQuestion, rtTopic, rtStore)) =>
                  /\ rtConf[1] = rtConf[2]
                  /\ ~belowThreshold(rtConf)

\* eight units were selected, one scoring far above the rest, and the
\* confidence is below 0.15
C30_Witness ==
    /\ RetrDone /\ rtVariant = "node" /\ Len(rtUnits) = K
    /\ belowThreshold(rtConf)
    /\ rtConf[1] * K >= rtConf[2]
    /\ rtUnits[1].s > rtUnits[K].s

====
